---- MODULE Spec2Model ----
(***************************************************************************)
(* A model of the e-mail relay service (express + jsonwebtoken +           *)
(* nodemailer): login, the bearer-token gate, the send-email handler with  *)
(* its payload validation and its two awaited transport calls.             *)
(*                                                                         *)
(* JavaScript strings are sequences of one-character strings, so that the  *)
(* address regular expression, String() coercion and Array.join are        *)
(* computed and not assumed.  A JSON value is a record [t, v]: its type    *)
(* tag and its content.                                                    *)
(*                                                                         *)
(* TLC's integers are 32 bits wide, so the clock of the model runs over    *)
(* the first days after the epoch; Date.now() stays in milliseconds and    *)
(* the token codec's clock in seconds, exactly as in the program.          *)
(***************************************************************************)
EXTENDS Integers, Sequences, FiniteSets, TLC

----------------------------------------------------------------------------
(* Bounds of the model *)

\* Clock ticks a behaviour may take (each of TickMs milliseconds).
MaxTicks == 4
\* Tokens a behaviour may have login issue.
MaxIssued == 2
\* Longest recipients array enumerated element by element.
MaxListLen == 2
MaxEmailLen == 5

----------------------------------------------------------------------------
(* JSON values *)

Undefined == [t |-> "undefined", v |-> 0]
Null == [t |-> "null", v |-> 0]
Obj == [t |-> "object", v |-> 0]
Num(n) == [t |-> "number", v |-> n]
Str(cs) == [t |-> "string", v |-> cs]
Arr(xs) == [t |-> "array", v |-> xs]

\* JavaScript truthiness, as used by `!x` and `a && b`.
Truthy(x) ==
  CASE x.t = "undefined" -> FALSE
    [] x.t = "null" -> FALSE
    [] x.t = "number" -> x.v # 0
    [] x.t = "string" -> x.v # <<>>
    [] OTHER -> TRUE

Digit == <<"0", "1", "2", "3", "4", "5", "6", "7", "8", "9">>

RECURSIVE NumStr(_)
NumStr(n) ==
  IF n < 10 THEN <<Digit[n + 1]>> ELSE NumStr(n \div 10) \o <<Digit[(n % 10) + 1]>>

\* String(x), the coercion RegExp.prototype.test and Array.prototype.join
\* apply to a value that is not a string.  JoinWith is Array.prototype.join:
\* null and undefined elements give the empty string.
RECURSIVE StringOf(_)
RECURSIVE JoinWith(_, _)
StringOf(x) ==
  CASE x.t = "string" -> x.v
    [] x.t = "number" -> NumStr(x.v)
    [] x.t = "null" -> <<"n", "u", "l", "l">>
    [] x.t = "undefined" -> <<"u", "n", "d", "e", "f", "i", "n", "e", "d">>
    [] x.t = "object" ->
         <<"[", "o", "b", "j", "e", "c", "t", " ", "O", "b", "j", "e", "c", "t", "]">>
    [] x.t = "array" -> JoinWith(x.v, <<",">>)

JoinWith(xs, sep) ==
  IF xs = <<>> THEN <<>>
  ELSE LET h == IF Head(xs).t \in {"null", "undefined"} THEN <<>>
                ELSE StringOf(Head(xs))
       IN IF Len(xs) = 1 THEN h ELSE h \o sep \o JoinWith(Tail(xs), sep)

----------------------------------------------------------------------------
(* isValidEmail *)

\* The characters \s matches, among those of the model's alphabet.
Whitespace == {" ", "\t", "\n"}

\* s[i..j] is non-empty and matches [^\s@]+ .
MatchesClass(s, i, j) ==
  /\ i <= j
  /\ \A k \in i..j : s[k] \notin (Whitespace \cup {"@"})

\* The pattern without its anchors: some part of the string has the shape.
RegexTestUnanchored(s) ==
  \E a \in 1..Len(s), b \in 1..Len(s), i \in 1..Len(s), j \in 1..Len(s) :
    /\ s[i] = "@"
    /\ s[j] = "."
    /\ MatchesClass(s, a, i - 1)
    /\ MatchesClass(s, i + 1, j - 1)
    /\ MatchesClass(s, j + 1, b)

\* /^[^\s@]+@[^\s@]+\.[^\s@]+$/ : some '@' at i and some '.' at j split the
\* whole string into three non-empty runs of [^\s@].
RegexTest(s) ==
  \E i \in 1..Len(s), j \in 1..Len(s) :
    /\ s[i] = "@"
    /\ s[j] = "."
    /\ MatchesClass(s, 1, i - 1)
    /\ MatchesClass(s, i + 1, j - 1)
    /\ MatchesClass(s, j + 1, Len(s))

\* s without its leading and trailing whitespace.
Trim(s) ==
  LET solid == {k \in 1..Len(s) : s[k] \notin Whitespace}
  IN IF solid = {} THEN <<>>
     ELSE SubSeq(s, CHOOSE k \in solid : \A j \in solid : k <= j,
                    CHOOSE k \in solid : \A j \in solid : j <= k)

\* A check that trims the address first.
isValidEmailTrims(email) == RegexTest(Trim(StringOf(email)))

isValidEmail(email) == RegexTest(StringOf(email))

----------------------------------------------------------------------------
(* Credentials and the token codec *)

S_admin == <<"a", "d", "m", "i", "n">>
S_admin123 == <<"a", "d", "m", "i", "n", "1", "2", "3">>
S_user == <<"u", "s", "e", "r">>
S_user123 == <<"u", "s", "e", "r", "1", "2", "3">>
S_emailsender == <<"e", "m", "a", "i", "l", "s", "e", "n", "d", "e", "r">>
S_email123 == <<"e", "m", "a", "i", "l", "1", "2", "3">>

validCredentials ==
  << [username |-> Str(S_admin), password |-> Str(S_admin123)],
     [username |-> Str(S_user), password |-> Str(S_user123)],
     [username |-> Str(S_emailsender), password |-> Str(S_email123)] >>

\* Date.now() counts milliseconds; the token codec counts seconds.
MsPerSec == 1000
\* expiresIn: '24h', in the codec's seconds.
ExpiresIn == 86400

FallbackSecret == "your-super-secret-jwt-key-change-in-production"
EnvSecret == "secret-from-env"

NoToken == [username |-> Undefined, iat |-> 0, exp |-> 0, key |-> ""]

\* jwt.sign(payload, key, {expiresIn: '24h'}): a payload that carries iat
\* keeps it, and exp is that iat plus the span in seconds.
jwtSign(username, iat, key) ==
  [username |-> username, iat |-> iat, exp |-> iat + ExpiresIn, key |-> key]

\* jwt.verify(token, key) at wall-clock nowMs: the signature is the key's
\* and the codec's clock, floor(Date.now() / 1000), is before exp.
jwtVerify(tok, key, nowMs) ==
  /\ tok.key = key
  /\ (nowMs \div MsPerSec) < tok.exp

----------------------------------------------------------------------------
(* Requests and responses *)

NoData ==
  [token |-> NoToken, username |-> Undefined, expiresIn |-> "", tokenType |-> "",
   messageId |-> "", senderName |-> Undefined, senderEmail |-> Undefined,
   recipientCount |-> 0, sentBy |-> Undefined, timestamp |-> 0,
   port |-> 0, networkInterfaces |-> <<>>, primaryIP |-> <<>>,
   urlLocal |-> <<>>, urlNetwork |-> <<>>, uptime |-> 0]

\* status 0: no response written yet.  `tail` is the interpolated part of a
\* message built by a template literal, `error` the raw error text.
NoResponse ==
  [status |-> 0, success |-> FALSE, message |-> "", tail |-> <<>>, error |-> "",
   timestamp |-> 0, data |-> NoData]

\* res.status(code).json({success: false, message})
Failure(code, message) ==
  [NoResponse EXCEPT !.status = code, !.message = message]

\* The Authorization header: absent, or its value as split(' ') cuts it.  A
\* segment is a word, the empty string, a string that is no token, or a
\* signed token ("jwt").
NoHeader == [present |-> FALSE, segs |-> <<>>]
Word(w) == [text |-> w, jwt |-> NoToken]
Jwt(tok) == [text |-> "jwt", jwt |-> tok]
Header(segs) == [present |-> TRUE, segs |-> segs]

NoBody ==
  [username |-> Undefined, password |-> Undefined, senderEmail |-> Undefined,
   senderName |-> Undefined, appPassword |-> Undefined, recipients |-> Undefined,
   subject |-> Undefined, template |-> Undefined]

NoUser == [username |-> Undefined, iat |-> 0, exp |-> 0]
NoTransporter == [created |-> FALSE, user |-> Undefined, pass |-> Undefined]
NoMail ==
  [sent |-> FALSE, from |-> <<>>, to |-> Undefined, bcc |-> Undefined,
   subject |-> Undefined, html |-> Undefined]

\* A request slot: where its handler stands (idle: no request; verify and
\* sendMail: suspended at that await; done: response written), what it was
\* sent, the wall-clock time it entered, the claims the gate attached, the
\* steps it has taken in order, what its awaited transport calls came back
\* with in order, what it handed to the transport, what
\* os.networkInterfaces() showed when it came in, the values its log calls
\* were given in order, how many responses its
\* handler has written and the last of them.
IdleRequest ==
  [pc |-> "idle", route |-> "none", header |-> NoHeader, body |-> NoBody, at |-> 0,
   user |-> NoUser, calls |-> <<>>, settled |-> <<>>, transporter |-> NoTransporter,
   mail |-> NoMail, listing |-> <<>>, logged |-> <<>>, responses |-> 0,
   res |-> NoResponse]

----------------------------------------------------------------------------
(* The gate *)

\* A gate that reads the first segment of the header instead of the second.
verifyTokenFirstSegment(header, key, nowMs) ==
  IF ~(header.present /\ Len(header.segs) >= 1 /\ header.segs[1].text # "")
    THEN [res |-> Failure(401, "Access denied. No token provided."), user |-> NoUser]
    ELSE IF header.segs[1].text = "jwt" /\ jwtVerify(header.segs[1].jwt, key, nowMs)
           THEN [res |-> NoResponse,
                 user |-> [username |-> header.segs[1].jwt.username,
                           iat |-> header.segs[1].jwt.iat, exp |-> header.segs[1].jwt.exp]]
           ELSE [res |-> Failure(403, "Invalid token."), user |-> NoUser]

\* A gate that answers "no token" only when the header itself is absent.
verifyTokenHeaderOnly(header, key, nowMs) ==
  IF ~header.present
    THEN [res |-> Failure(401, "Access denied. No token provided."), user |-> NoUser]
    ELSE IF /\ Len(header.segs) >= 2
            /\ header.segs[2].text = "jwt"
            /\ jwtVerify(header.segs[2].jwt, key, nowMs)
           THEN [res |-> NoResponse,
                 user |-> [username |-> header.segs[2].jwt.username,
                           iat |-> header.segs[2].jwt.iat, exp |-> header.segs[2].jwt.exp]]
           ELSE [res |-> Failure(403, "Invalid token."), user |-> NoUser]

\* verifyToken (the middleware): [res |-> the 401/403 it answers, or
\* NoResponse when it calls next(); user |-> req.user].
verifyToken(header, key, nowMs) ==
  LET hasToken == /\ header.present
                  /\ Len(header.segs) >= 2
                  /\ header.segs[2].text # ""
      token == header.segs[2]
  IN IF ~hasToken
       THEN [res |-> Failure(401, "Access denied. No token provided."), user |-> NoUser]
       ELSE IF token.text = "jwt" /\ jwtVerify(token.jwt, key, nowMs)
              THEN [res |-> NoResponse,
                    user |-> [username |-> token.jwt.username, iat |-> token.jwt.iat,
                              exp |-> token.jwt.exp]]
              ELSE [res |-> Failure(403, "Invalid token."), user |-> NoUser]

----------------------------------------------------------------------------
(* Login *)

\* A lookup that accepts a stored username with any stored password.
FindUserAnyPassword(username, password) ==
  LET hits == {i \in 1..Len(validCredentials) :
                 /\ validCredentials[i].username = username
                 /\ \E j \in 1..Len(validCredentials) :
                      validCredentials[j].password = password}
  IN IF hits = {} THEN 0 ELSE CHOOSE i \in hits : \A j \in hits : i <= j

\* validCredentials.find(u => u.username === username && u.password === password):
\* the first matching entry's index, 0 when there is none.
FindUser(username, password) ==
  LET hits == {i \in 1..Len(validCredentials) :
                 /\ validCredentials[i].username = username
                 /\ validCredentials[i].password = password}
  IN IF hits = {} THEN 0 ELSE CHOOSE i \in hits : \A j \in hits : i <= j

\* The response of POST /api/login at wall-clock nowMs.
LoginResponse(username, password, key, nowMs) ==
  LET i == FindUser(username, password)
  IN IF i = 0
       THEN Failure(401, "Invalid username or password")
       ELSE [NoResponse EXCEPT
               !.status = 200, !.success = TRUE, !.message = "Login successful",
               !.data = [NoData EXCEPT
                           !.token = jwtSign(validCredentials[i].username, nowMs, key),
                           !.username = validCredentials[i].username,
                           !.expiresIn = "24h", !.tokenType = "Bearer"]]

----------------------------------------------------------------------------
(* The send-email handler *)

MaxRecipients == 25

\* A filter that stops at the first invalid address.
invalidEmailsFirstOnly(recipients) ==
  LET bad == SelectSeq(recipients, LAMBDA email : ~isValidEmail(email))
  IN IF bad = <<>> THEN <<>> ELSE <<Head(bad)>>

\* recipients.filter(email => !isValidEmail(email))
invalidEmails(recipients) == SelectSeq(recipients, LAMBDA email : ~isValidEmail(email))

\* The validation block with one of its checks changed: the per-recipient
\* check left out ("NoRecipientCheck"), the sender format tested before the
\* required fields ("SenderFirst"), or the count compared with >= ("OffByOne").
ValidationVariant(body, variant) ==
  LET missing == \/ ~Truthy(body.senderEmail) \/ ~Truthy(body.senderName)
                 \/ ~Truthy(body.appPassword) \/ ~Truthy(body.recipients)
                 \/ ~Truthy(body.subject) \/ ~Truthy(body.template)
      missingFields == Failure(400, "All fields are required: senderEmail, senderName, appPassword, recipients, subject, template")
      tooMany == IF variant = "OffByOne"
                   THEN Len(body.recipients.v) >= MaxRecipients
                   ELSE Len(body.recipients.v) > MaxRecipients
  IN IF variant = "SenderFirst" /\ ~isValidEmail(body.senderEmail)
       THEN Failure(400, "Invalid sender email format")
     ELSE IF missing
       THEN missingFields
     ELSE IF ~isValidEmail(body.senderEmail)
       THEN Failure(400, "Invalid sender email format")
     ELSE IF body.recipients.t # "array" \/ Len(body.recipients.v) = 0
       THEN Failure(400, "Recipients must be a non-empty array")
     ELSE IF tooMany
       THEN Failure(400, "Maximum 25 recipients allowed")
     ELSE IF variant # "NoRecipientCheck" /\ Len(invalidEmails(body.recipients.v)) > 0
       THEN [Failure(400, "Invalid email format for: ") EXCEPT
               !.tail = JoinWith(invalidEmails(body.recipients.v), <<",", " ">>)]
     ELSE NoResponse

ValidationNoRecipientCheck(body) == ValidationVariant(body, "NoRecipientCheck")
ValidationSenderFirst(body) == ValidationVariant(body, "SenderFirst")
ValidationOffByOne(body) == ValidationVariant(body, "OffByOne")

\* The validation block: the 400 response of the first failing check, or
\* NoResponse when the payload passes them all.
Validation(body) ==
  IF \/ ~Truthy(body.senderEmail) \/ ~Truthy(body.senderName)
     \/ ~Truthy(body.appPassword) \/ ~Truthy(body.recipients)
     \/ ~Truthy(body.subject) \/ ~Truthy(body.template)
    THEN Failure(400, "All fields are required: senderEmail, senderName, appPassword, recipients, subject, template")
  ELSE IF ~isValidEmail(body.senderEmail)
    THEN Failure(400, "Invalid sender email format")
  ELSE IF body.recipients.t # "array" \/ Len(body.recipients.v) = 0
    THEN Failure(400, "Recipients must be a non-empty array")
  ELSE IF Len(body.recipients.v) > MaxRecipients
    THEN Failure(400, "Maximum 25 recipients allowed")
  ELSE IF Len(invalidEmails(body.recipients.v)) > 0
    THEN [Failure(400, "Invalid email format for: ") EXCEPT
            !.tail = JoinWith(invalidEmails(body.recipients.v), <<",", " ">>)]
  ELSE NoResponse

\* createTransporter(senderEmail, appPassword)
createTransporter(senderEmail, appPassword) ==
  [created |-> TRUE, user |-> senderEmail, pass |-> appPassword]

\* Options that also name the first recipient in the `to`.
mailOptionsWithTo(body) ==
  [sent |-> TRUE,
   from |-> StringOf(body.senderName) \o <<" ", "<">> \o StringOf(body.senderEmail) \o <<">">>,
   to |-> body.recipients.v[1],
   bcc |-> body.recipients,
   subject |-> body.subject,
   html |-> body.template]

\* mailOptions: from is `${senderName} <${senderEmail}>`, the whole recipient
\* list goes to bcc and there is no `to`.
mailOptions(body) ==
  [sent |-> TRUE,
   from |-> StringOf(body.senderName) \o <<" ", "<">> \o StringOf(body.senderEmail) \o <<">">>,
   to |-> Undefined,
   bcc |-> body.recipients,
   subject |-> body.subject,
   html |-> body.template]

\* Options of server.js that leave out the second recipient.
mailOptionsDropsSecond(body) ==
  [sent |-> TRUE,
   from |-> StringOf(body.senderName) \o <<" ", "<">> \o StringOf(body.senderEmail) \o <<">">>,
   to |-> body.recipients.v[1],
   bcc |-> IF Len(body.recipients.v) > 2 THEN Arr(Tail(Tail(body.recipients.v)))
           ELSE Undefined,
   subject |-> body.subject,
   html |-> body.template]

\* mailOptions of server.js: the first recipient is the `to`, the others are
\* the bcc, which is undefined when there are none.
mailOptions_server_js(body) ==
  [sent |-> TRUE,
   from |-> StringOf(body.senderName) \o <<" ", "<">> \o StringOf(body.senderEmail) \o <<">">>,
   to |-> body.recipients.v[1],
   bcc |-> IF Len(body.recipients.v) > 1 THEN Arr(Tail(body.recipients.v)) ELSE Undefined,
   subject |-> body.subject,
   html |-> body.template]

\* What an awaited transport call comes back with: a delivery identifier, or
\* a thrown error with its code and message.
Delivered(id) == [ok |-> TRUE, code |-> "", message |-> "", messageId |-> id]
Thrown(code, message) == [ok |-> FALSE, code |-> code, message |-> message, messageId |-> ""]

\* A catch block that tells the two codes apart by the text of the message.
CatchBlockByMessage(error) ==
  IF error.code = "EAUTH" \/ error.message = "EAUTH"
    THEN Failure(401, "Authentication failed. Please check your email and app password.")
  ELSE IF error.code = "ECONNECTION"
    THEN Failure(503, "Connection failed. Please check your internet connection.")
  ELSE [Failure(500, "Failed to send email") EXCEPT !.error = error.message]

\* The catch block of the handler.
CatchBlock(error) ==
  IF error.code = "EAUTH"
    THEN Failure(401, "Authentication failed. Please check your email and app password.")
  ELSE IF error.code = "ECONNECTION"
    THEN Failure(503, "Connection failed. Please check your internet connection.")
  ELSE [Failure(500, "Failed to send email") EXCEPT !.error = error.message]

\* A success response that counts the distinct recipients.
SuccessResponseDistinctCount(body, user, info, nowMs) ==
  [NoResponse EXCEPT
     !.status = 200, !.success = TRUE, !.message = "Email sent successfully",
     !.data = [NoData EXCEPT
                 !.messageId = info.messageId,
                 !.senderName = body.senderName,
                 !.senderEmail = body.senderEmail,
                 !.recipientCount =
                    Cardinality({body.recipients.v[k] : k \in 1..Len(body.recipients.v)}),
                 !.sentBy = user.username,
                 !.timestamp = nowMs]]

\* res.status(200).json({... data: {...}}) after sendMail returned `info`, at
\* wall-clock nowMs.
SuccessResponse(body, user, info, nowMs) ==
  [NoResponse EXCEPT
     !.status = 200, !.success = TRUE, !.message = "Email sent successfully",
     !.data = [NoData EXCEPT
                 !.messageId = info.messageId,
                 !.senderName = body.senderName,
                 !.senderEmail = body.senderEmail,
                 !.recipientCount = Len(body.recipients.v),
                 !.sentBy = user.username,
                 !.timestamp = nowMs]]

----------------------------------------------------------------------------
(* The log calls of the send-email handler *)

\* A string the server made: an error's message, a delivery identifier.
Text(s) == [t |-> "text", v |-> s]

\* recipients?.length || 0
RecipientsLength(rc) == IF rc.t \in {"array", "string"} THEN Len(rc.v) ELSE 0

\* What the gate and the handler log up to the first await, for a request
\* that passed the gate; `invalid` is the validation's response.  The final
\* server logs nothing there.
ArrivalLog(bld, body, user, invalid) ==
  IF bld = "final" THEN <<>>
  ELSE <<user.username, user.username, Num(RecipientsLength(body.recipients))>>
       \o (IF invalid.message = "Invalid sender email format" THEN <<body.senderEmail>>
           ELSE IF invalid.message = "Maximum 25 recipients allowed"
             THEN <<Num(Len(body.recipients.v))>>
           ELSE IF invalid.message = "Invalid email format for: " THEN <<Str(invalid.tail)>>
           ELSE IF invalid.status # 0 THEN <<user.username>>
           ELSE <<body.senderEmail>>)

\* A catch block that logs the credentials it failed with.
CatchLogWithPassword(bld, body, error) ==
  <<Text(error.message)>>
  \o (IF error.code = "EAUTH" THEN <<body.senderEmail, body.appPassword>> ELSE <<>>)

\* What the catch block logs: the error, and in server.js the sender email
\* after an EAUTH.
CatchLog(bld, body, error) ==
  <<Text(error.message)>>
  \o (IF bld = "logging" /\ error.code = "EAUTH" THEN <<body.senderEmail>> ELSE <<>>)

\* What server.js logs before sendMail: the first recipient and the number
\* of the others.
SendingLog(bld, body) ==
  IF bld = "final" THEN <<>>
  ELSE <<body.recipients.v[1], Num(Len(body.recipients.v) - 1)>>

\* What server.js logs after sendMail returned.
SentLog(bld, body, info) ==
  IF bld = "final" THEN <<>>
  ELSE <<Text(info.messageId), Num(Len(body.recipients.v))>>

----------------------------------------------------------------------------
(* Server information *)

PORT == 3000

S_localhost == <<"l", "o", "c", "a", "l", "h", "o", "s", "t">>
S_http == <<"h", "t", "t", "p", ":", "/", "/">>

\* getServerIPs over os.networkInterfaces(), a list of [name, nets] in the
\* object's enumeration order: the IPv4, non-internal entries, in order.
RECURSIVE getServerIPs(_)
getServerIPs(networkInterfaces) ==
  IF networkInterfaces = <<>> THEN <<>>
  ELSE LET first == Head(networkInterfaces)
           kept == SelectSeq(first.nets,
                             LAMBDA network : network.family = "IPv4" /\ ~network.internal)
       IN [i \in 1..Len(kept) |->
             [interface |-> first.name, address |-> kept[i].address,
              netmask |-> kept[i].netmask]]
          \o getServerIPs(Tail(networkInterfaces))

\* A serverInfo object whose primary address is the last one kept.
ServerInfoDataLastIP(networkInterfaces, nowMs, startMs) ==
  LET serverIPs == getServerIPs(networkInterfaces)
  IN [NoData EXCEPT
        !.port = PORT,
        !.networkInterfaces = serverIPs,
        !.primaryIP = IF Len(serverIPs) > 0 THEN serverIPs[Len(serverIPs)].address
                      ELSE S_localhost,
        !.urlLocal = S_http \o S_localhost \o <<":">> \o NumStr(PORT),
        !.urlNetwork = IF Len(serverIPs) > 0
                         THEN S_http \o serverIPs[Len(serverIPs)].address \o <<":">>
                              \o NumStr(PORT)
                         ELSE S_http \o S_localhost \o <<":">> \o NumStr(PORT),
        !.uptime = (nowMs - startMs) \div MsPerSec,
        !.timestamp = nowMs]

\* The serverInfo object of GET /api/server-info.
ServerInfoData(networkInterfaces, nowMs, startMs) ==
  LET serverIPs == getServerIPs(networkInterfaces)
  IN [NoData EXCEPT
        !.port = PORT,
        !.networkInterfaces = serverIPs,
        !.primaryIP = IF Len(serverIPs) > 0 THEN serverIPs[1].address ELSE S_localhost,
        !.urlLocal = S_http \o S_localhost \o <<":">> \o NumStr(PORT),
        !.urlNetwork = IF Len(serverIPs) > 0
                         THEN S_http \o serverIPs[1].address \o <<":">> \o NumStr(PORT)
                         ELSE S_http \o S_localhost \o <<":">> \o NumStr(PORT),
        !.uptime = (nowMs - startMs) \div MsPerSec,
        !.timestamp = nowMs]

----------------------------------------------------------------------------
(* State *)

VARIABLES
  build,        \* which server file is deployed, fixed at startup
  now,          \* the wall clock, Date.now(), in milliseconds
  JWT_SECRET,   \* the signing key, fixed at startup
  issued,       \* the tokens login has handed out (kept by clients only)
  netifs,       \* what os.networkInterfaces() returns now
  reqs          \* the request slots

vars == <<build, now, JWT_SECRET, issued, netifs, reqs>>

StartMs == 50 * MsPerSec
TickMs == 12 * 3600 * MsPerSec

Slots == {1, 2}

\* The server file that is deployed: the final server (part_002), or the
\* logging server of server.js, 229-596, whose gate, validation, transport
\* calls, catch block and responses are the same statements and whose
\* mailOptions differ.
Builds == {"final", "logging"}

TypeOK ==
  /\ build \in Builds
  /\ now \in Nat
  /\ JWT_SECRET \in {EnvSecret, FallbackSecret}
  /\ Cardinality(issued) <= MaxIssued
  /\ DOMAIN reqs = Slots
  /\ \A r \in Slots : reqs[r].pc \in {"idle", "verify", "sendMail", "done"}

S_10_0_0_5 == <<"1", "0", ".", "0", ".", "0", ".", "5">>
S_192_168_1_7 == <<"1", "9", "2", ".", "1", "6", "8", ".", "1", ".", "7">>
S_127_0_0_1 == <<"1", "2", "7", ".", "0", ".", "0", ".", "1">>
S_fe80 == <<"f", "e", "8", "0", ":", ":", "1">>
S_mask == <<"2", "5", "5", ".", "0", ".", "0", ".", "0">>

Net(family, internal, address) ==
  [family |-> family, internal |-> internal, address |-> address, netmask |-> S_mask]
Lo == [name |-> "lo", nets |-> <<Net("IPv4", TRUE, S_127_0_0_1)>>]
Eth0 == [name |-> "eth0",
         nets |-> <<Net("IPv6", FALSE, S_fe80), Net("IPv4", FALSE, S_10_0_0_5)>>]
Wlan0 == [name |-> "wlan0", nets |-> <<Net("IPv4", FALSE, S_192_168_1_7)>>]

\* The interface listings the host may show.
NetConfigs == {<<>>, <<Lo>>, <<Lo, Eth0>>, <<Lo, Wlan0, Eth0>>, <<Eth0, Wlan0>>}

\* process.env.JWT_SECRET || fallback: either may be the key of a run.
Init ==
  /\ build \in Builds
  /\ now = StartMs
  /\ JWT_SECRET \in {EnvSecret, FallbackSecret}
  /\ issued = {}
  /\ netifs \in NetConfigs
  /\ reqs = [r \in Slots |-> IdleRequest]

\* Time passes.
Tick ==
  /\ now < StartMs + MaxTicks * TickMs
  /\ now' = now + TickMs
  /\ UNCHANGED <<build, JWT_SECRET, issued, netifs, reqs>>

\* A login that changes the signing key each time it issues a token, so that
\* the tokens issued before stop verifying.
LoginRotatesKey(r, header, username, password) ==
  LET res == LoginResponse(username, password, JWT_SECRET, now)
  IN /\ reqs[r].pc = "idle"
     /\ res.status = 200 =>
          \/ res.data.token \in issued
          \/ Cardinality(issued) < MaxIssued
     /\ reqs' = [reqs EXCEPT ![r] =
                   [IdleRequest EXCEPT
                      !.pc = "done", !.responses = @ + 1, !.route = "login", !.header = header, !.at = now,
                      !.body = [NoBody EXCEPT !.username = username, !.password = password],
                      !.calls = <<"login">>,
                      !.res = res]]
     /\ issued' = IF res.status = 200 THEN issued \cup {res.data.token} ELSE issued
     /\ JWT_SECRET' = IF res.status = 200 /\ res.data.token \notin issued
                        THEN CHOOSE k \in {EnvSecret, FallbackSecret} : k # JWT_SECRET
                        ELSE JWT_SECRET
     /\ UNCHANGED <<build, now, netifs>>

\* POST /api/login with the given body fields; the route has no gate, so the
\* header is not read.
Login(r, header, username, password) ==
  LET res == LoginResponse(username, password, JWT_SECRET, now)
  IN /\ reqs[r].pc = "idle"
     /\ res.status = 200 =>
          \/ res.data.token \in issued
          \/ Cardinality(issued) < MaxIssued
     /\ reqs' = [reqs EXCEPT ![r] =
                   [IdleRequest EXCEPT
                      !.pc = "done", !.responses = @ + 1, !.route = "login", !.header = header, !.at = now,
                      !.body = [NoBody EXCEPT !.username = username, !.password = password],
                      !.calls = <<"login">>,
                      !.res = res]]
     /\ issued' = IF res.status = 200 THEN issued \cup {res.data.token} ELSE issued
     /\ UNCHANGED <<build, now, JWT_SECRET, netifs>>

\* The route registered without the gate: the handler validates first and
\* the token is looked at only for a payload that passed.
SendEmailValidatesFirst(r, header, body) ==
  LET gate == verifyToken(header, JWT_SECRET, now)
      invalid == Validation(body)
      arrived == [IdleRequest EXCEPT
                    !.route = "send-email", !.header = header, !.body = body, !.at = now]
  IN /\ reqs[r].pc = "idle"
     /\ reqs' = [reqs EXCEPT ![r] =
          IF invalid.status # 0
            THEN [arrived EXCEPT !.pc = "done", !.responses = @ + 1, !.calls = <<"validate">>, !.res = invalid]
          ELSE IF gate.res.status # 0
            THEN [arrived EXCEPT !.pc = "done", !.responses = @ + 1, !.calls = <<"validate", "verifyToken">>,
                                 !.res = gate.res]
          ELSE [arrived EXCEPT !.pc = "verify", !.user = gate.user,
                               !.calls = <<"validate", "verifyToken",
                                           "createTransporter", "verify">>,
                               !.transporter =
                                  createTransporter(body.senderEmail, body.appPassword)]]
     /\ UNCHANGED <<build, now, JWT_SECRET, issued, netifs>>

\* A handler that keeps its transporter in a module-level variable: a request
\* arriving while another is in flight uses that request's transporter.
SendEmailSharedTransporter(r, header, body) ==
  LET gate == verifyToken(header, JWT_SECRET, now)
      invalid == Validation(body)
      arrived == [IdleRequest EXCEPT
                    !.route = "send-email", !.header = header, !.body = body, !.at = now]
      inFlight == {q \in Slots \ {r} : reqs[q].pc \in {"verify", "sendMail"}}
  IN /\ reqs[r].pc = "idle"
     /\ reqs' = [reqs EXCEPT ![r] =
          IF gate.res.status # 0
            THEN [arrived EXCEPT !.pc = "done", !.responses = @ + 1, !.calls = <<"verifyToken">>,
                                 !.res = gate.res]
          ELSE IF invalid.status # 0
            THEN [arrived EXCEPT !.pc = "done", !.responses = @ + 1, !.user = gate.user,
                                 !.calls = <<"verifyToken", "validate">>,
                                 !.res = invalid]
          ELSE [arrived EXCEPT !.pc = "verify", !.user = gate.user,
                               !.calls = <<"verifyToken", "validate",
                                           "createTransporter", "verify">>,
                               !.transporter =
                                  IF inFlight = {}
                                    THEN createTransporter(body.senderEmail, body.appPassword)
                                    ELSE reqs[CHOOSE q \in inFlight : TRUE].transporter]]
     /\ UNCHANGED <<build, now, JWT_SECRET, issued, netifs>>

\* A handler whose validation answers 400 without returning: it goes on to
\* createTransporter and transporter.verify().
SendEmailValidationFallsThrough(r, header, body) ==
  LET gate == verifyToken(header, JWT_SECRET, now)
      invalid == Validation(body)
      arrived == [IdleRequest EXCEPT
                    !.route = "send-email", !.header = header, !.body = body, !.at = now]
  IN /\ reqs[r].pc = "idle"
     /\ reqs' = [reqs EXCEPT ![r] =
          IF gate.res.status # 0
            THEN [arrived EXCEPT !.pc = "done", !.responses = @ + 1, !.calls = <<"verifyToken">>,
                                 !.res = gate.res]
          ELSE [arrived EXCEPT !.pc = "verify", !.user = gate.user,
                               !.responses = IF invalid.status # 0 THEN 1 ELSE 0,
                               !.res = invalid,
                               !.logged = ArrivalLog(build, body, gate.user, invalid),
                               !.calls = <<"verifyToken", "validate",
                                           "createTransporter", "verify">>,
                               !.transporter =
                                  createTransporter(body.senderEmail, body.appPassword)]]
     /\ UNCHANGED <<build, now, JWT_SECRET, issued, netifs>>

\* POST /api/send-email up to its first await: the gate, then the handler's
\* validation, createTransporter and the call of transporter.verify().
SendEmail(r, header, body) ==
  LET gate == verifyToken(header, JWT_SECRET, now)
      invalid == Validation(body)
      arrived == [IdleRequest EXCEPT
                    !.route = "send-email", !.header = header, !.body = body, !.at = now]
  IN /\ reqs[r].pc = "idle"
     /\ reqs' = [reqs EXCEPT ![r] =
          IF gate.res.status # 0
            THEN [arrived EXCEPT !.pc = "done", !.responses = @ + 1, !.calls = <<"verifyToken">>,
                                 !.res = gate.res]
          ELSE IF invalid.status # 0
            THEN [arrived EXCEPT !.pc = "done", !.responses = @ + 1, !.user = gate.user,
                                 !.calls = <<"verifyToken", "validate">>,
                                 !.logged = ArrivalLog(build, body, gate.user, invalid),
                                 !.res = invalid]
          ELSE [arrived EXCEPT !.pc = "verify", !.user = gate.user,
                               !.logged = ArrivalLog(build, body, gate.user, invalid),
                               !.calls = <<"verifyToken", "validate",
                                           "createTransporter", "verify">>,
                               !.transporter =
                                  createTransporter(body.senderEmail, body.appPassword)]]
     /\ UNCHANGED <<build, now, JWT_SECRET, issued, netifs>>

\* A handler that goes on to sendMail whatever verify came back with.
VerifyReturnsIgnoresFailure(r, outcome) ==
  /\ reqs[r].pc = "verify"
  /\ reqs' = [reqs EXCEPT ![r] =
       [@ EXCEPT !.pc = "sendMail", !.calls = Append(@, "sendMail"),
                 !.settled = Append(@, outcome),
                 !.mail = mailOptions(reqs[r].body)]]
  /\ UNCHANGED <<build, now, JWT_SECRET, issued, netifs>>

\* transporter.verify() settles: on success the handler builds mailOptions
\* and calls sendMail; a throw goes to the catch block.
VerifyReturns(r, outcome) ==
  /\ reqs[r].pc = "verify"
  /\ reqs' = [reqs EXCEPT ![r] =
       IF outcome.ok
         THEN [@ EXCEPT !.pc = "sendMail", !.calls = Append(@, "sendMail"),
                        !.settled = Append(@, outcome),
                        !.logged = @ \o SendingLog(build, reqs[r].body),
                        !.mail = IF build = "final"
                                   THEN mailOptions(reqs[r].body)
                                   ELSE mailOptions_server_js(reqs[r].body)]
         ELSE [@ EXCEPT !.pc = "done", !.responses = @ + 1, !.settled = Append(@, outcome),
                        !.logged = @ \o CatchLog(build, reqs[r].body, outcome),
                        !.res = CatchBlock(outcome)]]
  /\ UNCHANGED <<build, now, JWT_SECRET, issued, netifs>>

\* A handler that calls sendMail once more after its first failure.
SendMailReturnsRetries(r, outcome) ==
  /\ reqs[r].pc = "sendMail"
  /\ reqs' = [reqs EXCEPT ![r] =
       IF outcome.ok
         THEN [@ EXCEPT !.pc = "done", !.responses = @ + 1, !.settled = Append(@, outcome),
                        !.res = SuccessResponse(reqs[r].body, reqs[r].user, outcome, now)]
       ELSE IF Len(reqs[r].settled) < 2
         THEN [@ EXCEPT !.calls = Append(@, "sendMail"), !.settled = Append(@, outcome)]
       ELSE [@ EXCEPT !.pc = "done", !.responses = @ + 1, !.settled = Append(@, outcome),
                      !.res = CatchBlock(outcome)]]
  /\ UNCHANGED <<build, now, JWT_SECRET, issued, netifs>>

\* A handler that verifies the token again before it answers, and answers
\* as the gate would when the token no longer verifies.
SendMailReturnsRechecksToken(r, outcome) ==
  LET gate == verifyToken(reqs[r].header, JWT_SECRET, now)
  IN /\ reqs[r].pc = "sendMail"
     /\ reqs' = [reqs EXCEPT ![r] =
          IF gate.res.status # 0
            THEN [@ EXCEPT !.pc = "done", !.responses = @ + 1,
                           !.settled = Append(@, outcome), !.res = gate.res]
          ELSE IF outcome.ok
            THEN [@ EXCEPT !.pc = "done", !.responses = @ + 1,
                           !.settled = Append(@, outcome),
                           !.res = SuccessResponse(reqs[r].body, reqs[r].user, outcome, now)]
          ELSE [@ EXCEPT !.pc = "done", !.responses = @ + 1, !.settled = Append(@, outcome),
                         !.res = CatchBlock(outcome)]]
     /\ UNCHANGED <<build, now, JWT_SECRET, issued, netifs>>

\* transporter.sendMail(mailOptions) settles: the 200 response, or the catch
\* block.
SendMailReturns(r, outcome) ==
  /\ reqs[r].pc = "sendMail"
  /\ reqs' = [reqs EXCEPT ![r] =
       IF outcome.ok
         THEN [@ EXCEPT !.pc = "done", !.responses = @ + 1, !.settled = Append(@, outcome),
                        !.logged = @ \o SentLog(build, reqs[r].body, outcome),
                        !.res = SuccessResponse(reqs[r].body, reqs[r].user, outcome, now)]
         ELSE [@ EXCEPT !.pc = "done", !.responses = @ + 1, !.settled = Append(@, outcome),
                        !.logged = @ \o CatchLog(build, reqs[r].body, outcome),
                        !.res = CatchBlock(outcome)]]
  /\ UNCHANGED <<build, now, JWT_SECRET, issued, netifs>>

\* GET /api/health
Health(r, header) ==
  /\ reqs[r].pc = "idle"
  /\ reqs' = [reqs EXCEPT ![r] =
       [IdleRequest EXCEPT
          !.pc = "done", !.responses = @ + 1, !.route = "health", !.header = header, !.at = now,
          !.calls = <<"health">>,
          !.res = [NoResponse EXCEPT !.status = 200, !.success = TRUE,
                                     !.message = "Email service is running",
                                     !.timestamp = now]]]
  /\ UNCHANGED <<build, now, JWT_SECRET, issued, netifs>>

\* A handler that answers from the serverInfo object of an earlier call when
\* one is at hand.
ServerInfoCached(r, header, osError) ==
  LET cached == {q \in Slots \ {r} :
                   reqs[q].route = "server-info" /\ reqs[q].res.status = 200}
  IN /\ reqs[r].pc = "idle"
     /\ reqs' = [reqs EXCEPT ![r] =
          [IdleRequest EXCEPT
             !.pc = "done", !.responses = @ + 1, !.route = "server-info",
             !.header = header, !.at = now,
             !.calls = <<"server-info">>, !.listing = netifs,
             !.res = IF cached # {}
                       THEN reqs[CHOOSE q \in cached : TRUE].res
                     ELSE IF osError.ok
                       THEN [NoResponse EXCEPT
                               !.status = 200, !.success = TRUE,
                               !.message = "Server information retrieved successfully",
                               !.data = ServerInfoData(netifs, now, StartMs)]
                     ELSE [Failure(500, "Failed to retrieve server information") EXCEPT
                             !.error = osError.message]]]
     /\ UNCHANGED <<build, now, JWT_SECRET, issued, netifs>>

\* GET /api/server-info; the OS call returns the listing or throws.
ServerInfo(r, header, osError) ==
  /\ reqs[r].pc = "idle"
  /\ reqs' = [reqs EXCEPT ![r] =
       [IdleRequest EXCEPT
          !.pc = "done", !.responses = @ + 1, !.route = "server-info", !.header = header, !.at = now,
          !.calls = <<"server-info">>, !.listing = netifs,
          !.res = IF osError.ok
                    THEN [NoResponse EXCEPT
                            !.status = 200, !.success = TRUE,
                            !.message = "Server information retrieved successfully",
                            !.data = ServerInfoData(netifs, now, StartMs)]
                    ELSE [Failure(500, "Failed to retrieve server information") EXCEPT
                            !.error = osError.message]]]
  /\ UNCHANGED <<build, now, JWT_SECRET, issued, netifs>>

\* An error middleware that passes the error's message on to the client.
errorMiddlewareLeaks(err) ==
  [Failure(500, "Something went wrong!") EXCEPT !.error = err.message]

\* The error handling middleware, app.use((err, req, res, next) => ...).
errorMiddleware(err) == Failure(500, "Something went wrong!")

\* What express.json() passes to next() for a body it cannot parse, and what
\* destructuring an undefined req.body throws.
SyntaxError == Thrown("", "Unexpected token } in JSON")
TypeError == Thrown("", "Cannot destructure property of 'req.body' as it is undefined.")

\* The method and path pairs: the four routes and any other pair.
Routes == {"login", "send-email", "health", "server-info", "other"}

\* A request on any method and path whose body express.json() cannot parse:
\* the parser runs before every route and before the gate, and hands its
\* error to the error handling middleware.
BodyParseFails(r, route, header) ==
  /\ reqs[r].pc = "idle"
  /\ reqs' = [reqs EXCEPT ![r] =
       [IdleRequest EXCEPT
          !.pc = "done", !.responses = @ + 1, !.route = route, !.header = header,
          !.at = now, !.calls = <<"express.json", "throw", "errorMiddleware">>,
          !.res = errorMiddleware(SyntaxError)]]
  /\ UNCHANGED <<build, now, JWT_SECRET, issued, netifs>>

\* A 404 handler registered behind the gate.
NoRouteBehindGate(r, header) ==
  LET gate == verifyToken(header, JWT_SECRET, now)
  IN /\ reqs[r].pc = "idle"
     /\ reqs' = [reqs EXCEPT ![r] =
          [IdleRequest EXCEPT
             !.pc = "done", !.responses = @ + 1, !.route = "other", !.header = header,
             !.at = now, !.calls = <<"express.json", "notFound">>,
             !.res = IF gate.res.status # 0 THEN gate.res
                     ELSE Failure(404, "Route not found")]]
     /\ UNCHANGED <<build, now, JWT_SECRET, issued, netifs>>

\* A request no route matches: the last app.use answers it.
NoRoute(r, header) ==
  /\ reqs[r].pc = "idle"
  /\ reqs' = [reqs EXCEPT ![r] =
       [IdleRequest EXCEPT
          !.pc = "done", !.responses = @ + 1, !.route = "other", !.header = header,
          !.at = now, !.calls = <<"express.json", "notFound">>,
          !.res = Failure(404, "Route not found")]]
  /\ UNCHANGED <<build, now, JWT_SECRET, issued, netifs>>

\* POST /api/login when req.body is undefined (an Express that leaves the
\* body unset when it parsed none): the handler's first statement throws,
\* the router catches the throw and calls the error handling middleware.
LoginBodyUndefined(r, header) ==
  /\ reqs[r].pc = "idle"
  /\ reqs' = [reqs EXCEPT ![r] =
       [IdleRequest EXCEPT
          !.pc = "done", !.responses = @ + 1, !.route = "login", !.header = header,
          !.at = now, !.calls = <<"login", "throw", "errorMiddleware">>,
          !.res = errorMiddleware(TypeError)]]
  /\ UNCHANGED <<build, now, JWT_SECRET, issued, netifs>>

\* POST /api/send-email when req.body is undefined: after the gate, the
\* destructuring throws.  In the final server it stands inside the try and
\* the catch block answers; in server.js it stands before the try, the
\* handler's promise rejects, and that router passes the rejection to the
\* error handling middleware.
SendEmailBodyUndefined(r, header) ==
  LET gate == verifyToken(header, JWT_SECRET, now)
      arrived == [IdleRequest EXCEPT
                    !.route = "send-email", !.header = header, !.at = now]
  IN /\ reqs[r].pc = "idle"
     /\ reqs' = [reqs EXCEPT ![r] =
          IF gate.res.status # 0
            THEN [arrived EXCEPT !.pc = "done", !.responses = @ + 1,
                                 !.calls = <<"verifyToken">>, !.res = gate.res]
          ELSE IF build = "final"
            THEN [arrived EXCEPT !.pc = "done", !.responses = @ + 1, !.user = gate.user,
                                 !.calls = <<"verifyToken", "throw", "catch">>,
                                 !.logged = <<Text(TypeError.message)>>,
                                 !.res = CatchBlock(TypeError)]
          ELSE [arrived EXCEPT !.pc = "done", !.responses = @ + 1, !.user = gate.user,
                               !.calls = <<"verifyToken", "throw", "errorMiddleware">>,
                               !.logged = <<gate.user.username, Text(TypeError.message)>>,
                               !.res = errorMiddleware(TypeError)]]
     /\ UNCHANGED <<build, now, JWT_SECRET, issued, netifs>>

\* The host's interfaces change.
NetChange(listing) ==
  /\ listing # netifs
  /\ netifs' = listing
  /\ UNCHANGED <<build, now, JWT_SECRET, issued, reqs>>

\* The response has left and the slot serves the next request.
Close(r) ==
  /\ reqs[r].pc = "done"
  /\ reqs' = [reqs EXCEPT ![r] = IdleRequest]
  /\ UNCHANGED <<build, now, JWT_SECRET, issued, netifs>>

----------------------------------------------------------------------------
(* Inputs *)

S_Admin == <<"A", "d", "m", "i", "n">>
S_ADMIN123 == <<"A", "D", "M", "I", "N", "1", "2", "3">>
S_mallory == <<"m", "a", "l", "l", "o", "r", "y">>

\* Login fields: the stored values, wrong-case variants, the empty string,
\* a missing field and non-string JSON values.
UsernameInputs ==
  {Str(S_admin), Str(S_user), Str(S_emailsender), Str(S_Admin), Str(<<>>),
   Undefined, Null, Arr(<<Str(S_admin)>>)}
PasswordInputs ==
  {Str(S_admin123), Str(S_user123), Str(S_email123), Str(S_ADMIN123), Str(S_admin),
   Undefined, Num(123), Arr(<<Str(S_admin123)>>)}

\* Tokens nobody logged in for: signed by someone who knows the fallback key
\* published with the source, or by someone who knows no key of the server.
ForgedTokens ==
  {jwtSign(Str(S_mallory), StartMs, k) : k \in {FallbackSecret, "attacker-key"}}

\* Authorization headers a client may send, given the tokens in circulation.
HeadersWith(tokens) ==
  {NoHeader, Header(<<Word("")>>), Header(<<Word("Bearer")>>),
   Header(<<Word("Bearer"), Word("")>>), Header(<<Word("Bearer"), Word("garbage")>>)}
  \cup {Header(<<Word("Bearer"), Jwt(tok)>>) : tok \in tokens}
  \cup {Header(<<Word("Basic"), Jwt(tok)>>) : tok \in tokens}
  \cup {Header(<<Word("Bearer"), Jwt(tok), Word("x")>>) : tok \in tokens}
  \cup {Header(<<Word("Bearer"), Word(""), Jwt(tok)>>) : tok \in tokens}

S_good == <<"a", "@", "b", ".", "c">>
S_good2 == <<"X", ".", "y", "@", "z", ".", "c", "o">>
S_bad == <<"a", "b">>
S_spaced == <<"a", " ", "@", "b", ".", "c">>
S_name == <<"N", "a", "m", "e">>
S_pass == <<"p", "w">>
S_subject == <<"H", "i">>
S_html == <<"<", "p", ">">>

ValidBody ==
  [NoBody EXCEPT
     !.senderEmail = Str(S_good), !.senderName = Str(S_name),
     !.appPassword = Str(S_pass), !.recipients = Arr(<<Str(S_good2), Str(S_good)>>),
     !.subject = Str(S_subject), !.template = Str(S_html)]

\* What verify and sendMail may come back with.
TransportErrors ==
  {Thrown("EAUTH", "Invalid login"), Thrown("ECONNECTION", "getaddrinfo ENOTFOUND"),
   Thrown("ETIMEDOUT", "Connection timeout"), Thrown("", "boom")}
VerifyOutcomes == {Delivered("")} \cup TransportErrors
SendMailOutcomes == {Delivered("<id-1@mail>"), Delivered("<id-2@mail>")} \cup TransportErrors
OsOutcomes == {Delivered(""), Thrown("ENOSYS", "uv_interface_addresses failed")}

----------------------------------------------------------------------------
(* The authentication view: one request at a time, every login input, every
   header shape, a valid and an invalid payload, and the clock. *)

AuthBodies == {ValidBody, [ValidBody EXCEPT !.senderEmail = Str(S_bad)], NoBody}

InitAuth ==
  /\ Init
  /\ build = "final"
  /\ netifs = <<Lo, Eth0>>

NextAuth ==
  \/ Tick
  \/ \E u \in UsernameInputs, p \in PasswordInputs : Login(1, NoHeader, u, p)
  \/ \E p \in {Str(S_admin123), Str(S_user123)} :
       Login(1, Header(<<Word("Bearer"), Word("garbage")>>), Str(S_admin), p)
  \/ \E h \in HeadersWith(issued \cup ForgedTokens), b \in AuthBodies : SendEmail(1, h, b)
  \/ \E o \in VerifyOutcomes : VerifyReturns(1, o)
  \/ \E o \in SendMailOutcomes : SendMailReturns(1, o)
  \/ \E h \in {NoHeader, Header(<<Word("Bearer"), Word("garbage")>>)} : Health(1, h)
  \/ \E h \in {NoHeader, Header(<<Word("Bearer"), Word("garbage")>>)},
        o \in OsOutcomes : ServerInfo(1, h, o)
  \/ Close(1)

SpecAuth == InitAuth /\ [][NextAuth]_vars

----------------------------------------------------------------------------
(* The validation view: one request at a time with a token that verifies,
   and every payload of the enumeration below. *)

\* The sequences over S of length at most n.
SeqsUpTo(S, n) == UNION {[1..k -> S] : k \in 0..n}

SenderInputs ==
  {Str(S_good), Str(S_bad), Str(S_spaced), Str(<<>>), Undefined, Num(5),
   Arr(<<Str(S_good)>>)}

RecipientElements ==
  {Str(S_good), Str(S_bad), Num(5), Null, Arr(<<Str(S_good)>>)}

\* Arrays around the limit: all valid but at most two chosen positions.
LongList(n, k, k2) ==
  [i \in 1..n |-> IF i = k THEN Str(S_bad)
                  ELSE IF i = k2 THEN Str(S_spaced) ELSE Str(S_good)]
LongLists ==
  UNION {{LongList(n, k, k2) : k \in {0, 1, n}, k2 \in {0, 2}} :
           n \in (MaxRecipients - 1)..(MaxRecipients + 2)}

RecipientInputs ==
  {Undefined, Null, Num(0), Num(5), Str(<<>>), Str(S_good), Obj}
  \cup {Arr(xs) : xs \in SeqsUpTo(RecipientElements, MaxListLen) \cup LongLists}

\* A valid payload with its sender and recipients replaced, and one of the
\* other four fields kept, missing or empty.
ValidateBodies ==
  {[ValidBody EXCEPT !.senderEmail = se, !.recipients = rc, ![f] = m] :
     se \in SenderInputs, rc \in RecipientInputs,
     f \in {"senderName", "appPassword", "subject", "template"},
     m \in {ValidBody.subject, Undefined, Str(<<>>)}}

InitValidate ==
  /\ Init
  /\ build = "final"
  /\ netifs = <<Lo, Eth0>>

NextValidate ==
  \/ \E u \in {Str(S_user), Str(S_admin)} : Login(1, NoHeader, u, Str(S_user123))
  \/ \E tok \in issued, b \in ValidateBodies :
       SendEmail(1, Header(<<Word("Bearer"), Jwt(tok)>>), b)
  \/ \E o \in VerifyOutcomes : VerifyReturns(1, o)
  \/ \E o \in SendMailOutcomes : SendMailReturns(1, o)
  \/ Close(1)

SpecValidate == InitValidate /\ [][NextValidate]_vars

----------------------------------------------------------------------------
(* The address view: one request at a time with a token that verifies, whose
   sender address or whose only recipient is any string over a small
   alphabet, the other fields being valid. *)

EmailAlphabet == {"a", "@", ".", " "}

\* a@b.c with one other whitespace character put in at any place.
WithWhitespace ==
  {SubSeq(S_good, 1, k) \o <<w>> \o SubSeq(S_good, k + 1, Len(S_good)) :
     k \in 0..Len(S_good), w \in {"\t", "\n"}}

\* a@b.c in upper case, in mixed case, and with a space before or after it.
S_upper == <<"A", "@", "B", ".", "C">>
S_mixed == <<"a", "@", "B", ".", "c">>
RawSamples == {S_upper, S_mixed, <<" ">> \o S_good, S_good \o <<" ">>}

EmailStrings == SeqsUpTo(EmailAlphabet, MaxEmailLen) \cup WithWhitespace \cup RawSamples

EmailBodies ==
  {[ValidBody EXCEPT !.senderEmail = Str(s)] : s \in EmailStrings}
  \cup {[ValidBody EXCEPT !.recipients = Arr(<<Str(s)>>)] : s \in EmailStrings}

InitEmail ==
  /\ Init
  /\ netifs = <<Lo, Eth0>>

NextEmail ==
  \/ Login(1, NoHeader, Str(S_user), Str(S_user123))
  \/ \E tok \in issued, b \in EmailBodies :
       SendEmail(1, Header(<<Word("Bearer"), Jwt(tok)>>), b)
  \/ \E o \in {Delivered(""), Thrown("EAUTH", "Invalid login")} : VerifyReturns(1, o)
  \/ \E o \in {Delivered("<id-1@mail>"), Thrown("ETIMEDOUT", "Connection timeout")} :
       SendMailReturns(1, o)
  \/ Close(1)

SpecEmail == InitEmail /\ [][NextEmail]_vars

----------------------------------------------------------------------------
(* The whole server: both slots, so that requests overlap at their awaits,
   either build, either key, and payloads that differ in every field. *)

S_sender2 == <<"s", "@", "t", ".", "u">>
S_name2 == <<"O", "t", "h", "e", "r">>
S_pass2 == <<"p", "w", "2">>
S_subject2 == <<"Y", "o">>
S_html2 == <<"<", "b", ">">>

\* Every field differs from ValidBody's; one recipient is named twice.
OtherBody ==
  [NoBody EXCEPT
     !.senderEmail = Str(S_sender2), !.senderName = Str(S_name2),
     !.appPassword = Str(S_pass2),
     !.recipients = Arr(<<Str(S_good), Str(S_good), Str(S_sender2)>>),
     !.subject = Str(S_subject2), !.template = Str(S_html2)]

\* Two recipients; three with a duplicate; one; the most allowed; ValidBody
\* with another app password; and a payload that fails validation.
Bodies ==
  {ValidBody, OtherBody,
   [ValidBody EXCEPT !.recipients = Arr(<<Str(S_good2)>>)],
   [OtherBody EXCEPT !.recipients = Arr(LongList(MaxRecipients, 0, 0))],
   [ValidBody EXCEPT !.appPassword = Str(S_pass2)],
   [ValidBody EXCEPT !.senderEmail = Str(S_bad)]}

Credentials ==
  {<<Str(S_user), Str(S_user123)>>, <<Str(S_admin), Str(S_admin123)>>,
   <<Str(S_user), Str(S_admin123)>>}

\* Errors of one code with two messages, and a message that names another
\* error's code.
Errors ==
  {Thrown("EAUTH", "Invalid login"), Thrown("EAUTH", "Username and Password not accepted"),
   Thrown("ECONNECTION", "getaddrinfo ENOTFOUND"), Thrown("ETIMEDOUT", "EAUTH"),
   Thrown("", "boom")}

InitServer ==
  /\ Init
  /\ netifs = <<Lo, Eth0>>

Next ==
  \/ \E r \in Slots, c \in Credentials : Login(r, NoHeader, c[1], c[2])
  \/ \E r \in Slots, b \in Bodies,
        h \in {NoHeader} \cup {Header(<<Word("Bearer"), Jwt(tok)>>) : tok \in issued} :
       SendEmail(r, h, b)
  \/ \E r \in Slots, o \in {Delivered("")} \cup Errors : VerifyReturns(r, o)
  \/ \E r \in Slots, o \in {Delivered("<id-1@mail>"), Delivered("<id-2@mail>")} \cup Errors :
       SendMailReturns(r, o)
  \/ \E r \in Slots : Health(r, NoHeader)
  \/ \E r \in Slots : Close(r)

Spec == InitServer /\ [][Next]_vars

----------------------------------------------------------------------------
(* The routes view: both slots, every route and any other path, bodies that
   do not parse or are not there, and a host whose interfaces change. *)

RouteHeaders ==
  {NoHeader, Header(<<Word("Bearer"), Word("garbage")>>)}
  \cup {Header(<<Word("Bearer"), Jwt(tok)>>) : tok \in issued}

RouteBodies == {ValidBody, [ValidBody EXCEPT !.senderEmail = Str(S_bad)]}

RouteErrors == {Thrown("EAUTH", "Invalid login"), Thrown("ECONNECTION", "getaddrinfo ENOTFOUND"),
                Thrown("", "boom")}

InitRoutes ==
  /\ Init
  /\ JWT_SECRET = EnvSecret

NextRoutes ==
  \/ \E r \in Slots, p \in {Str(S_user123), Str(S_admin123)} :
       Login(r, NoHeader, Str(S_user), p)
  \/ \E r \in Slots, h \in RouteHeaders, b \in RouteBodies : SendEmail(r, h, b)
  \/ \E r \in Slots, o \in {Delivered("")} \cup RouteErrors : VerifyReturns(r, o)
  \/ \E r \in Slots, o \in {Delivered("<id-1@mail>")} \cup RouteErrors :
       SendMailReturns(r, o)
  \/ \E r \in Slots, h \in RouteHeaders : Health(r, h)
  \/ \E r \in Slots, h \in RouteHeaders, o \in OsOutcomes : ServerInfo(r, h, o)
  \/ \E r \in Slots, route \in Routes, h \in RouteHeaders : BodyParseFails(r, route, h)
  \/ \E r \in Slots, h \in RouteHeaders : NoRoute(r, h)
  \/ \E r \in Slots, h \in RouteHeaders : LoginBodyUndefined(r, h)
  \/ \E r \in Slots, h \in RouteHeaders : SendEmailBodyUndefined(r, h)
  \/ \E listing \in NetConfigs : NetChange(listing)
  \/ \E r \in Slots : Close(r)

SpecRoutes == InitRoutes /\ [][NextRoutes]_vars

----------------------------------------------------------------------------
(* The progress view: both slots, one account, a valid and an invalid
   payload, and transport calls that each come back: the awaited promise of
   verify() and of sendMail() settles, with a result or an error. *)

LiveBodies == {ValidBody, [ValidBody EXCEPT !.senderEmail = Str(S_bad)]}

LiveHeaders == {NoHeader} \cup {Header(<<Word("Bearer"), Jwt(tok)>>) : tok \in issued}

LiveErrors == {Thrown("EAUTH", "Invalid login"), Thrown("ECONNECTION", "getaddrinfo ENOTFOUND"),
               Thrown("", "boom")}

VerifySettles(r) == \E o \in {Delivered("")} \cup LiveErrors : VerifyReturns(r, o)

SendMailSettles(r) == \E o \in {Delivered("<id-1@mail>")} \cup LiveErrors : SendMailReturns(r, o)

InitLive ==
  /\ Init
  /\ netifs = <<Lo, Eth0>>

NextLive ==
  \/ \E r \in Slots : Login(r, NoHeader, Str(S_user), Str(S_user123))
  \/ \E r \in Slots, h \in LiveHeaders, b \in LiveBodies : SendEmail(r, h, b)
  \/ \E r \in Slots : VerifySettles(r)
  \/ \E r \in Slots : SendMailSettles(r)
  \/ \E r \in Slots : Close(r)

SpecLive ==
  /\ InitLive
  /\ [][NextLive]_vars
  /\ \A r \in Slots : WF_vars(VerifySettles(r)) /\ WF_vars(SendMailSettles(r))

----------------------------------------------------------------------------
(* Properties of login and the gate, checked under SpecAuth *)

DayMs == 24 * 3600 * MsPerSec

LoginRequests == {r \in Slots : reqs[r].route = "login" /\ reqs[r].pc = "done"}
SendRequests == {r \in Slots : reqs[r].route = "send-email" /\ reqs[r].pc # "idle"}

InvalidLogin ==
  [status |-> 401, success |-> FALSE, message |-> "Invalid username or password",
   tail |-> <<>>, error |-> "", timestamp |-> 0, data |-> NoData]
NoTokenProvided ==
  [status |-> 401, success |-> FALSE, message |-> "Access denied. No token provided.",
   tail |-> <<>>, error |-> "", timestamp |-> 0, data |-> NoData]
InvalidTokenResponse ==
  [status |-> 403, success |-> FALSE, message |-> "Invalid token.",
   tail |-> <<>>, error |-> "", timestamp |-> 0, data |-> NoData]

\* The pair is one of the three stored entries, both fields of the same entry.
StoredPair(u, p) ==
  \/ u = Str(S_admin) /\ p = Str(S_admin123)
  \/ u = Str(S_user) /\ p = Str(S_user123)
  \/ u = Str(S_emailsender) /\ p = Str(S_email123)

\* C1: login answers 200 with a token exactly for the three stored pairs
\* (case-sensitive, both fields of one entry); every other input gets the
\* one response 401 'Invalid username or password'.
C1_LoginIffStoredPair ==
  \A r \in LoginRequests :
    LET u == reqs[r].body.username
        p == reqs[r].body.password
        res == reqs[r].res
    IN IF StoredPair(u, p)
         THEN /\ res.status = 200
              /\ res.success
              /\ res.data.token # NoToken
              /\ res.data.token \in issued
              /\ res.data.token.username = u
              /\ res.data.username = u
         ELSE res = InvalidLogin

\* A stored username with another entry's password has been refused.
C1_Witness ==
  \E r \in LoginRequests :
    /\ reqs[r].body.username = Str(S_admin)
    /\ reqs[r].body.password = Str(S_user123)
    /\ reqs[r].res.status = 401

\* The header is 'Bearer <tok>' and nothing else.
BearerOf(header, tok) == header = Header(<<Word("Bearer"), Jwt(tok)>>)

\* C2: a token issued by login is rejected with 403 'Invalid token.' whenever
\* it is presented 24 hours or more after it was issued.
C2_RejectedAfter24h ==
  \A r \in SendRequests : \A tok \in issued :
    (BearerOf(reqs[r].header, tok) /\ reqs[r].at >= tok.iat + DayMs)
      => reqs[r].res = InvalidTokenResponse

\* C3: a token login returned, presented at once as 'Bearer <token>', passes
\* the gate, and the claims attached to the request carry its username.
C3_FreshTokenAccepted ==
  \A r \in SendRequests : \A tok \in issued :
    (BearerOf(reqs[r].header, tok) /\ reqs[r].at = tok.iat)
      => /\ reqs[r].res # NoTokenProvided
         /\ reqs[r].res # InvalidTokenResponse
         /\ Len(reqs[r].calls) >= 2
         /\ reqs[r].user.username = tok.username
         /\ \E i \in 1..Len(validCredentials) :
              validCredentials[i].username = reqs[r].user.username

\* A request carrying a token issued at this very instant is past the gate.
C3_Witness ==
  \E r \in SendRequests : \E tok \in issued :
    /\ BearerOf(reqs[r].header, tok)
    /\ reqs[r].at = tok.iat
    /\ reqs[r].pc = "verify"
    /\ reqs[r].user.username = Str(S_user)

\* The header has no non-empty second space-separated segment.
TokenMissing(header) ==
  \/ ~header.present
  \/ Len(header.segs) < 2
  \/ header.segs[2].text = ""

\* The second segment is a token signed with the server's key whose expiry
\* is after the codec's clock at the time t.
TokenVerifies(header, t) ==
  /\ ~TokenMissing(header)
  /\ header.segs[2].text = "jwt"
  /\ header.segs[2].jwt.key = JWT_SECRET
  /\ t \div MsPerSec < header.segs[2].jwt.exp

\* C4: a send-email request gets 401 'Access denied. No token provided.'
\* exactly when it has no header or no non-empty second segment, and 403
\* 'Invalid token.' exactly when the segment is there but does not verify.
C4_MissingVersusInvalid ==
  \A r \in SendRequests :
    LET h == reqs[r].header
        res == reqs[r].res
    IN /\ TokenMissing(h) => res = NoTokenProvided
       /\ (~TokenMissing(h) /\ ~TokenVerifies(h, reqs[r].at)) => res = InvalidTokenResponse
       /\ TokenVerifies(h, reqs[r].at) => (res # NoTokenProvided /\ res # InvalidTokenResponse)

\* 'Bearer ' (an empty token segment) got the no-token response.
C4_Witness ==
  \E r \in SendRequests :
    /\ reqs[r].header = Header(<<Word("Bearer"), Word("")>>)
    /\ reqs[r].res = NoTokenProvided

\* C5: no validation, transporter, verify or sendMail step of a send-email
\* request happens unless the gate passed for that request, whatever its
\* payload; login, health and server-info are never answered by the gate.
C5_GateBeforeEverything ==
  \A r \in Slots :
    /\ (reqs[r].route = "send-email" /\ reqs[r].pc # "idle") =>
         /\ reqs[r].calls # <<>>
         /\ reqs[r].calls[1] = "verifyToken"
         /\ ~TokenVerifies(reqs[r].header, reqs[r].at) =>
              /\ reqs[r].calls = <<"verifyToken">>
              /\ reqs[r].pc = "done"
              /\ reqs[r].res \in {NoTokenProvided, InvalidTokenResponse}
              /\ reqs[r].transporter = NoTransporter
              /\ reqs[r].mail = NoMail
    /\ reqs[r].route \in {"login", "health", "server-info"} =>
         /\ reqs[r].pc = "done"
         /\ reqs[r].res.status \in {200, 401, 500}
         /\ \A i \in 1..Len(reqs[r].calls) : reqs[r].calls[i] # "verifyToken"
         /\ reqs[r].res # NoTokenProvided
         /\ reqs[r].res # InvalidTokenResponse

\* A request with a token that does not verify and a payload that is invalid
\* too was answered by the gate.
C5_Witness ==
  \E r \in SendRequests :
    /\ ~TokenVerifies(reqs[r].header, reqs[r].at)
    /\ ~TokenMissing(reqs[r].header)
    /\ Validation(reqs[r].body).status = 400
    /\ reqs[r].res = InvalidTokenResponse

----------------------------------------------------------------------------
(* Properties of the payload validation, checked under SpecValidate *)

\* The send-email requests whose token verified when they entered.
Admitted == {r \in SendRequests : TokenVerifies(reqs[r].header, reqs[r].at)}

Called(r, step) == \E i \in 1..Len(reqs[r].calls) : reqs[r].calls[i] = step

BadRequest(message) ==
  [status |-> 400, success |-> FALSE, message |-> message, tail |-> <<>>,
   error |-> "", timestamp |-> 0, data |-> NoData]

AllFieldsTruthy(b) ==
  /\ Truthy(b.senderEmail) /\ Truthy(b.senderName) /\ Truthy(b.appPassword)
  /\ Truthy(b.recipients) /\ Truthy(b.subject) /\ Truthy(b.template)

\* The positions of the recipients that fail the address-shape check.
Failing(rc) == {i \in 1..Len(rc) : ~isValidEmail(rc[i])}

\* All six fields truthy, the sender of the address shape, recipients an
\* array of 1..25 elements, each of the address shape.
PayloadPasses(b) ==
  /\ AllFieldsTruthy(b)
  /\ isValidEmail(b.senderEmail)
  /\ b.recipients.t = "array"
  /\ Len(b.recipients.v) \in 1..25
  /\ Failing(b.recipients.v) = {}

\* C6: a transporter is created and verify called exactly for the payloads
\* that pass every check, sendMail only for those; a payload that fails a
\* check is answered 400 and nothing is handed to the transport.
C6_TransportIffPayloadPasses ==
  \A r \in Admitted :
    LET b == reqs[r].body
    IN /\ PayloadPasses(b) <=> reqs[r].transporter.created
       /\ PayloadPasses(b) <=> Called(r, "verify")
       /\ Called(r, "createTransporter") <=> reqs[r].transporter.created
       /\ (Called(r, "sendMail") \/ reqs[r].mail.sent) => PayloadPasses(b)
       /\ reqs[r].transporter.created =>
            /\ reqs[r].transporter.user = b.senderEmail
            /\ reqs[r].transporter.pass = b.appPassword
       /\ ~PayloadPasses(b) =>
            /\ reqs[r].pc = "done"
            /\ reqs[r].res.status = 400
            /\ ~reqs[r].res.success
            /\ reqs[r].mail = NoMail

\* A payload that passes every check has had its sendMail call made.
C6_Witness ==
  \E r \in Admitted :
    /\ PayloadPasses(reqs[r].body)
    /\ reqs[r].pc = "sendMail"
    /\ reqs[r].mail.sent

\* The five checks, each failing on its own terms.
Fails1(b) == ~AllFieldsTruthy(b)
Fails2(b) == ~isValidEmail(b.senderEmail)
Fails3(b) == b.recipients.t # "array" \/ b.recipients.v = <<>>
Fails4(b) == b.recipients.t = "array" /\ Len(b.recipients.v) > 25
Fails5(b) == b.recipients.t = "array" /\ Failing(b.recipients.v) # {}

M1 == "All fields are required: senderEmail, senderName, appPassword, recipients, subject, template"
M2 == "Invalid sender email format"
M3 == "Recipients must be a non-empty array"
M4 == "Maximum 25 recipients allowed"
M5 == "Invalid email format for: "

\* C7: the response is that of the first failing check in the order missing
\* field, sender format, recipients array, recipient count, recipient
\* formats, whatever later checks would also fail; it is one 400 response.
C7_FirstFailingCheckReported ==
  \A r \in Admitted :
    LET b == reqs[r].body
        res == reqs[r].res
    IN /\ Fails1(b) => res = BadRequest(M1)
       /\ (~Fails1(b) /\ Fails2(b)) => res = BadRequest(M2)
       /\ (~Fails1(b) /\ ~Fails2(b) /\ Fails3(b)) => res = BadRequest(M3)
       /\ (~Fails1(b) /\ ~Fails2(b) /\ ~Fails3(b) /\ Fails4(b)) => res = BadRequest(M4)
       /\ (~Fails1(b) /\ ~Fails2(b) /\ ~Fails3(b) /\ ~Fails4(b) /\ Fails5(b)) =>
            /\ res.status = 400
            /\ res.message = M5
       /\ res.status = 400 => res.message \in {M1, M2, M3, M4, M5}

\* A payload with no subject and a malformed sender got the missing-fields
\* response.
C7_Witness ==
  \E r \in Admitted :
    /\ reqs[r].body.subject = Undefined
    /\ reqs[r].body.senderEmail = Str(S_bad)
    /\ reqs[r].res = BadRequest(M1)

\* The other five fields pass their checks.
OthersValid(b) == AllFieldsTruthy(b) /\ isValidEmail(b.senderEmail)

\* C8: with the other fields valid, 25 recipients pass the count check, 26 or
\* more are answered 400 'Maximum 25 recipients allowed', and the empty array
\* is answered 400 'Recipients must be a non-empty array'.
C8_RecipientCountBoundaries ==
  \A r \in Admitted :
    LET b == reqs[r].body
        res == reqs[r].res
    IN (OthersValid(b) /\ b.recipients.t = "array") =>
         /\ Len(b.recipients.v) = 25 =>
              /\ res.message # M4
              /\ Failing(b.recipients.v) = {} => reqs[r].transporter.created
         /\ Len(b.recipients.v) >= 26 => res = BadRequest(M4)
         /\ Len(b.recipients.v) = 0 => res = BadRequest(M3)

\* Exactly 25 valid recipients reached the transport.
C8_Witness ==
  \E r \in Admitted :
    /\ OthersValid(reqs[r].body)
    /\ reqs[r].body.recipients.t = "array"
    /\ Len(reqs[r].body.recipients.v) = 25
    /\ reqs[r].pc = "verify"

\* recipients is a non-empty array whose elements are all strings.
NonEmptyStringArray(x) ==
  /\ x.t = "array"
  /\ x.v # <<>>
  /\ \A i \in 1..Len(x.v) : x.v[i].t = "string"

\* C9: with the earlier checks passed, a recipients value that is not a
\* non-empty array of strings is answered 400 'Recipients must be a non-empty
\* array'.
C9_NonStringRecipientsRejected ==
  \A r \in Admitted :
    (OthersValid(reqs[r].body) /\ ~NonEmptyStringArray(reqs[r].body.recipients))
      => reqs[r].res = BadRequest(M3)

\* The k-th failing position of rc, in order.
NthFailing(rc, k) ==
  CHOOSE i \in Failing(rc) : Cardinality({j \in Failing(rc) : j <= i}) = k

\* An element as a joined list shows it.
Shown(e) == IF e.t \in {"null", "undefined"} THEN <<>> ELSE StringOf(e)

\* The failing recipients from the k-th on, joined by ', '.
RECURSIVE FailingText(_, _)
FailingText(rc, k) ==
  IF k > Cardinality(Failing(rc)) THEN <<>>
  ELSE Shown(rc[NthFailing(rc, k)])
       \o (IF k < Cardinality(Failing(rc)) THEN <<",", " ">> ELSE <<>>)
       \o FailingText(rc, k + 1)

\* C10: when checks 1-4 pass and some recipient fails the shape check, the
\* response is 400 'Invalid email format for: ' followed by every failing
\* recipient, in the order of the request, duplicates kept, joined by ', ',
\* and by nothing else.
C10_AllInvalidRecipientsListed ==
  \A r \in Admitted :
    LET b == reqs[r].body
    IN (/\ OthersValid(b) /\ b.recipients.t = "array"
        /\ Len(b.recipients.v) \in 1..25
        /\ Failing(b.recipients.v) # {})
         => /\ reqs[r].res.status = 400
            /\ reqs[r].res.message = M5
            /\ reqs[r].res.tail = FailingText(b.recipients.v, 1)
            /\ reqs[r].pc = "done"

\* Of 25 recipients the second and the last failed, and both are listed in
\* that order.
C10_Witness ==
  \E r \in Admitted :
    /\ OthersValid(reqs[r].body)
    /\ reqs[r].body.recipients.t = "array"
    /\ Len(reqs[r].body.recipients.v) = 25
    /\ reqs[r].res.message = M5
    /\ reqs[r].res.tail = S_spaced \o <<",", " ">> \o S_bad

----------------------------------------------------------------------------
(* The address shape, checked under SpecEmail *)

\* No whitespace, exactly one '@' with something before it, and after it a
\* '.' that is neither the first nor the last character of that part.
EmailShape(s) ==
  /\ \A k \in 1..Len(s) : s[k] \notin {" ", "\t", "\n"}
  /\ Cardinality({k \in 1..Len(s) : s[k] = "@"}) = 1
  /\ LET at == CHOOSE k \in 1..Len(s) : s[k] = "@"
     IN /\ at > 1
        /\ \E j \in (at + 2)..(Len(s) - 1) : s[j] = "."

\* The strings among a request's sender address and recipients.
Addresses(b) ==
  {x \in {b.senderEmail} \cup {b.recipients.v[k] : k \in 1..Len(b.recipients.v)} :
     x.t = "string"}

\* C11: isValidEmail is true exactly for the strings with no whitespace,
\* exactly one '@', a non-empty part before it, and after it a '.' that is
\* neither the first nor the last character of that part; it is false for
\* every other string, and a request goes on to the transport only with
\* addresses of that shape.
C11_ValidExactlyForAddressShape ==
  \A r \in Admitted :
    /\ \A x \in Addresses(reqs[r].body) : isValidEmail(x) <=> EmailShape(x.v)
    /\ Called(r, "verify") <=> \A x \in Addresses(reqs[r].body) : EmailShape(x.v)

C11_Witness ==
  \E r \in Admitted :
    /\ reqs[r].body.senderEmail = Str(<<"a", "@", "a", ".", "a">>)
    /\ Called(r, "verify")

----------------------------------------------------------------------------
(* Properties of the transport calls, checked under Spec *)

\* The position of a step in the request's trace, 0 when it was not taken.
PositionOf(r, step) ==
  IF Called(r, step) THEN CHOOSE i \in 1..Len(reqs[r].calls) : reqs[r].calls[i] = step
  ELSE 0

\* The request's k-th awaited transport call (1: verify, 2: sendMail) threw.
FailedAt(r, k) == Len(reqs[r].settled) >= k /\ ~reqs[r].settled[k].ok

\* C12: sendMail is invoked only after the request's verify has completed
\* successfully; when verify fails, sendMail is never invoked for the request
\* and the response is the one a sendMail failure with the same error gets.
C12_SendMailOnlyAfterVerifySucceeded ==
  /\ \A r \in SendRequests :
       /\ Called(r, "sendMail") =>
            /\ 0 < PositionOf(r, "verify")
            /\ PositionOf(r, "verify") < PositionOf(r, "sendMail")
            /\ Len(reqs[r].settled) >= 1
            /\ reqs[r].settled[1].ok
       /\ reqs[r].mail.sent => Called(r, "sendMail")
       /\ FailedAt(r, 1) =>
            /\ ~Called(r, "sendMail")
            /\ reqs[r].mail = NoMail
            /\ reqs[r].pc = "done"
            /\ reqs[r].res.status \in {401, 500, 503}
  /\ \A r \in SendRequests, q \in SendRequests :
       (FailedAt(r, 1) /\ FailedAt(q, 2) /\ reqs[r].settled[1] = reqs[q].settled[2])
         => reqs[r].res = reqs[q].res

\* One request failed at verify and another at sendMail with the same error.
C12_Witness ==
  \E r \in SendRequests, q \in SendRequests :
    /\ FailedAt(r, 1) /\ FailedAt(q, 2)
    /\ reqs[r].settled[1] = reqs[q].settled[2]
    /\ reqs[r].settled[1].code = "ECONNECTION"
    /\ ~Called(r, "sendMail") /\ Called(q, "sendMail")

\* The error a request's transport call threw, if one did.
Failed(r) == reqs[r].settled # <<>> /\ ~reqs[r].settled[Len(reqs[r].settled)].ok
ErrorOf(r) == reqs[r].settled[Len(reqs[r].settled)]

FailureResponse(status, message, error) ==
  [status |-> status, success |-> FALSE, message |-> message, tail |-> <<>>,
   error |-> error, timestamp |-> 0, data |-> NoData]

\* C13: a failure of verify or sendMail is answered by its code alone: EAUTH
\* with the 401 authentication message, ECONNECTION with the 503 connection
\* message, every other error with 500 'Failed to send email' and the raw
\* error message in the error field; the request ends with that one response.
C13_FailureMappedByCode ==
  \A r \in SendRequests :
    Failed(r) =>
      /\ reqs[r].pc = "done"
      /\ ErrorOf(r).code = "EAUTH" =>
           reqs[r].res =
             FailureResponse(401,
               "Authentication failed. Please check your email and app password.", "")
      /\ ErrorOf(r).code = "ECONNECTION" =>
           reqs[r].res =
             FailureResponse(503,
               "Connection failed. Please check your internet connection.", "")
      /\ ErrorOf(r).code \notin {"EAUTH", "ECONNECTION"} =>
           reqs[r].res = FailureResponse(500, "Failed to send email", ErrorOf(r).message)

\* One request failed with an error of another code whose message is the text
\* EAUTH and got the 500, another failed with the code EAUTH and got the 401.
C13_Witness ==
  \E r \in SendRequests, q \in SendRequests :
    /\ Failed(r) /\ Failed(q)
    /\ ErrorOf(r) = Thrown("ETIMEDOUT", "EAUTH")
    /\ reqs[r].res.status = 500
    /\ ErrorOf(q).code = "EAUTH"
    /\ reqs[q].res.status = 401

\* The username claim of the token a request presented.
PresentedUsername(r) == reqs[r].header.segs[2].jwt.username

\* C14: every 200 of send-email carries recipientCount equal to the length of
\* the request's recipients array (duplicates counted, between 1 and 25),
\* sentBy equal to the username claim of the token presented, messageId equal
\* to what that request's sendMail returned, and the request's senderName and
\* senderEmail; there is a 200 only after sendMail returned successfully.
C14_SuccessResponseData ==
  \A r \in SendRequests :
    /\ reqs[r].res.status = 200 =>
         /\ Len(reqs[r].settled) = 2
         /\ reqs[r].settled[1].ok /\ reqs[r].settled[2].ok
         /\ Called(r, "sendMail")
         /\ reqs[r].res.success
         /\ reqs[r].res.data.messageId = reqs[r].settled[2].messageId
         /\ reqs[r].body.recipients.t = "array"
         /\ reqs[r].res.data.recipientCount = Len(reqs[r].body.recipients.v)
         /\ reqs[r].res.data.recipientCount \in 1..25
         /\ reqs[r].res.data.sentBy = PresentedUsername(r)
         /\ reqs[r].res.data.senderName = reqs[r].body.senderName
         /\ reqs[r].res.data.senderEmail = reqs[r].body.senderEmail
    /\ (Len(reqs[r].settled) = 2 /\ reqs[r].settled[2].ok) => reqs[r].res.status = 200

\* Two requests of different users, one with three recipients of which one
\* is named twice, each got its own identifier, count and username.
C14_Witness ==
  \E r \in SendRequests, q \in SendRequests :
    /\ reqs[r].res.status = 200 /\ reqs[q].res.status = 200
    /\ reqs[r].body = OtherBody
    /\ reqs[r].res.data.recipientCount = 3
    /\ reqs[r].res.data.sentBy = Str(S_user)
    /\ reqs[q].res.data.sentBy = Str(S_admin)
    /\ reqs[q].res.data.recipientCount = 25
    /\ reqs[r].res.data.messageId # reqs[q].res.data.messageId

\* The requests whose handler has handed a message to sendMail.
Mailed == {r \in SendRequests : reqs[r].mail.sent}

Addressed(mail) ==
  (IF mail.to.t = "undefined" THEN <<>> ELSE <<mail.to>>)
  \o (IF mail.bcc.t = "undefined" THEN <<>> ELSE mail.bcc.v)

\* C16: in the handler of server.js the outbound message has the first
\* recipient as its `to` and the others, in order, as its bcc, which is absent
\* when there is exactly one recipient; `to` and bcc together are exactly the
\* recipients list.
C16_ServerJsToThenBcc ==
  build = "logging" =>
    \A r \in Mailed :
      LET rc == reqs[r].body.recipients.v
      IN /\ reqs[r].mail.to = rc[1]
         /\ Len(rc) = 1 => reqs[r].mail.bcc = Undefined
         /\ Len(rc) > 1 =>
              /\ reqs[r].mail.bcc.t = "array"
              /\ reqs[r].mail.bcc.v = SubSeq(rc, 2, Len(rc))
         /\ Addressed(reqs[r].mail) = rc

\* server.js sent one message to a single recipient and one to three.
C16_Witness ==
  /\ build = "logging"
  /\ \E r \in Mailed, q \in Mailed :
       /\ Len(reqs[r].body.recipients.v) = 1
       /\ reqs[r].mail.bcc = Undefined
       /\ reqs[q].body = OtherBody
       /\ reqs[q].mail.to = Str(S_good)
       /\ reqs[q].mail.bcc = Arr(<<Str(S_good), Str(S_sender2)>>)

\* How many times a request took a step.
Count(r, step) == Cardinality({i \in 1..Len(reqs[r].calls) : reqs[r].calls[i] = step})

\* C17: a send-email request makes at most one verify call and at most one
\* sendMail call, the sendMail call carries the whole recipient batch, and
\* after a transport call failed the request makes no further transport call.
C17_OneAttemptWholeBatch ==
  \A r \in SendRequests :
    /\ Count(r, "verify") <= 1
    /\ Count(r, "sendMail") <= 1
    /\ Count(r, "createTransporter") <= 1
    /\ Len(reqs[r].settled) <= Count(r, "verify") + Count(r, "sendMail")
    /\ reqs[r].mail.sent => Addressed(reqs[r].mail) = reqs[r].body.recipients.v
    /\ \A k \in 1..Len(reqs[r].settled) :
         ~reqs[r].settled[k].ok =>
           /\ k = Len(reqs[r].settled)
           /\ k = Count(r, "verify") + Count(r, "sendMail")
           /\ reqs[r].pc = "done"
           /\ reqs[r].res.status \in {401, 500, 503}

\* A request of 25 recipients whose one sendMail call failed is done, while
\* another request failed at verify.
C17_Witness ==
  \E r \in SendRequests, q \in SendRequests :
    /\ Len(reqs[r].body.recipients.v) = MaxRecipients
    /\ FailedAt(r, 2)
    /\ Count(r, "sendMail") = 1
    /\ reqs[r].pc = "done"
    /\ FailedAt(q, 1)

----------------------------------------------------------------------------
(* Requests do not affect one another, checked under Spec *)

\* The first failing check's response for a payload, status 0 when none fails.
ValidationAlone(b) ==
  IF Fails1(b) THEN BadRequest(M1)
  ELSE IF Fails2(b) THEN BadRequest(M2)
  ELSE IF Fails3(b) THEN BadRequest(M3)
  ELSE IF Fails4(b) THEN BadRequest(M4)
  ELSE IF Fails5(b)
    THEN [BadRequest(M5) EXCEPT !.tail = FailingText(b.recipients.v, 1)]
  ELSE NoResponse

\* The response of a send-email request from what it was sent, the time it
\* came in and what its own transport calls came back with; NoResponse while
\* it is suspended.
SendEmailAlone(header, body, at, settled) ==
  IF TokenMissing(header) THEN NoTokenProvided
  ELSE IF ~TokenVerifies(header, at) THEN InvalidTokenResponse
  ELSE IF ValidationAlone(body).status # 0 THEN ValidationAlone(body)
  ELSE IF settled = <<>> \/ (Len(settled) = 1 /\ settled[1].ok) THEN NoResponse
  ELSE LET last == settled[Len(settled)]
       IN IF last.ok
            THEN [status |-> 200, success |-> TRUE, message |-> "Email sent successfully",
                  tail |-> <<>>, error |-> "", timestamp |-> 0,
                  data |-> [NoData EXCEPT
                              !.messageId = last.messageId,
                              !.senderName = body.senderName,
                              !.senderEmail = body.senderEmail,
                              !.recipientCount = Len(body.recipients.v),
                              !.sentBy = header.segs[2].jwt.username,
                              !.timestamp = at]]
          ELSE IF last.code = "EAUTH"
            THEN FailureResponse(401,
                   "Authentication failed. Please check your email and app password.", "")
          ELSE IF last.code = "ECONNECTION"
            THEN FailureResponse(503,
                   "Connection failed. Please check your internet connection.", "")
          ELSE FailureResponse(500, "Failed to send email", last.message)

\* The response of a login request from its two fields and the time it came in.
LoginAlone(body, at) ==
  IF StoredPair(body.username, body.password)
    THEN [status |-> 200, success |-> TRUE, message |-> "Login successful",
          tail |-> <<>>, error |-> "", timestamp |-> 0,
          data |-> [NoData EXCEPT
                      !.token = [username |-> body.username, iat |-> at,
                                 exp |-> at + ExpiresIn, key |-> JWT_SECRET],
                      !.username = body.username,
                      !.expiresIn = "24h", !.tokenType = "Bearer"]]
    ELSE InvalidLogin

\* C18: under any interleaving of the requests in flight, each request's
\* response is the one it gets when handled alone with the same inputs, clock
\* and transport outcomes, and the transporter and the message of a request
\* are built from that request's sender email, app password, recipients,
\* subject and template, never from another request's.
C18_RequestsIndependent ==
  \A r \in Slots :
    LET rq == reqs[r]
    IN /\ rq.route = "send-email" =>
            /\ rq.res = SendEmailAlone(rq.header, rq.body, rq.at, rq.settled)
            /\ rq.pc = "done" <=> rq.res # NoResponse
            /\ rq.transporter.created =>
                 /\ rq.transporter.user = rq.body.senderEmail
                 /\ rq.transporter.pass = rq.body.appPassword
            /\ rq.mail.sent =>
                 /\ rq.transporter.created
                 /\ Addressed(rq.mail) = rq.body.recipients.v
                 /\ rq.mail.subject = rq.body.subject
                 /\ rq.mail.html = rq.body.template
                 /\ rq.mail.from =
                      StringOf(rq.body.senderName) \o <<" ", "<">>
                        \o StringOf(rq.body.senderEmail) \o <<">">>
       /\ rq.route = "login" => rq.res = LoginAlone(rq.body, rq.at)
       /\ rq.route # "send-email" =>
            rq.transporter = NoTransporter /\ rq.mail = NoMail

\* Two send-email requests with different senders, passwords, recipients,
\* subjects and templates are suspended at the same time, one at sendMail
\* and one at verify.
C18_Witness ==
  \E r \in Slots, q \in Slots :
    /\ reqs[r].pc = "sendMail" /\ reqs[r].body = ValidBody
    /\ reqs[q].pc = "verify" /\ reqs[q].body = OtherBody
    /\ reqs[r].transporter.user # reqs[q].transporter.user
    /\ reqs[r].user.username # reqs[q].user.username

----------------------------------------------------------------------------
(* The life of a token and the shape of the header, checked under SpecAuth *)

\* The gate lets 'Bearer <tok>' through now.
Accepts(tok) ==
  verifyToken(Header(<<Word("Bearer"), Jwt(tok)>>), JWT_SECRET, now).res.status = 0

\* The codec's clock at wall-clock time t has not reached the token's expiry.
Unexpired(tok, t) == t \div MsPerSec < tok.exp

\* C19: only expiry invalidates a token: whatever logins (successful or not)
\* and send-email calls have happened since it was issued, an issued token is
\* accepted as long as it has not expired, a request presenting it then has
\* passed the gate, and tokens of one username are accepted side by side.
C19_OnlyExpiryInvalidates ==
  /\ \A tok \in issued : Accepts(tok) <=> Unexpired(tok, now)
  /\ \A r \in SendRequests : \A tok \in issued :
       (BearerOf(reqs[r].header, tok) /\ Unexpired(tok, reqs[r].at))
         => /\ Called(r, "validate")
            /\ reqs[r].user.username = tok.username

\* Two tokens of one username are both accepted, and the older one has
\* passed the gate after the newer one was issued.
C19_Witness ==
  \E old \in issued, new \in issued, r \in SendRequests :
    /\ old.username = new.username
    /\ old.iat < new.iat
    /\ Accepts(old) /\ Accepts(new)
    /\ BearerOf(reqs[r].header, old)
    /\ reqs[r].at >= new.iat
    /\ Called(r, "validate")

\* C20: the gate lets a request through only when its header is exactly
\* 'Bearer <token>' with a token that verifies: a verifying token after
\* another first word, or followed by further segments, is not accepted.
C20_OnlyExactBearerAccepted ==
  \A r \in SendRequests :
    Called(r, "validate") =>
      /\ reqs[r].header.present
      /\ Len(reqs[r].header.segs) = 2
      /\ reqs[r].header.segs[1] = Word("Bearer")
      /\ TokenVerifies(reqs[r].header, reqs[r].at)

----------------------------------------------------------------------------
(* The fallbacks and the route table, checked under SpecRoutes *)

\* The requests in the slots.
Requests == {r \in Slots : reqs[r].pc # "idle"}

\* Something threw while the request was handled and no catch block of a
\* route took it.
Uncaught(r) == Called(r, "throw") /\ ~Called(r, "catch")

SomethingWentWrong == FailureResponse(500, "Something went wrong!", "")

\* C21: a request during whose handling something threw that the route did
\* not catch (a body that does not parse, on any route; a throw before the
\* handler's try) is answered with 500 'Something went wrong!' and no error
\* text, once; no such request is left without a response, and no other
\* request gets that response.
C21_UncaughtGetsFallback ==
  \A r \in Requests :
    /\ Uncaught(r) =>
         /\ reqs[r].pc = "done"
         /\ reqs[r].responses = 1
         /\ reqs[r].res = SomethingWentWrong
    /\ reqs[r].res.message = "Something went wrong!" => Uncaught(r)

\* In server.js a send-email request with a token that verifies threw before
\* the handler's try, while a request to no route had a body that does not
\* parse.
C21_Witness ==
  /\ build = "logging"
  /\ \E r \in Requests, q \in Requests :
       /\ reqs[r].route = "send-email"
       /\ reqs[r].calls = <<"verifyToken", "throw", "errorMiddleware">>
       /\ reqs[r].res = SomethingWentWrong
       /\ reqs[q].route = "other"
       /\ reqs[q].calls[1] = "express.json"
       /\ reqs[q].res = SomethingWentWrong

\* The statuses the route table gives each route.
TableStatuses(route) ==
  CASE route = "login" -> {200, 401}
    [] route = "send-email" -> {200, 400, 401, 403, 503, 500}
    [] route = "health" -> {200}
    [] route = "server-info" -> {200, 500}
    [] OTHER -> {404}

Answered == {r \in Requests : reqs[r].pc = "done"}

----------------------------------------------------------------------------
(* Server information, checked under SpecRoutes *)

\* The server-info requests answered with 200.
Informed ==
  {r \in Answered : reqs[r].route = "server-info" /\ reqs[r].res.status = 200}

\* The places <<i, j>> of a listing that hold an IPv4, non-internal entry.
Kept(listing) ==
  {p \in UNION {{<<i, j>> : j \in 1..Len(listing[i].nets)} : i \in 1..Len(listing)} :
     /\ listing[p[1]].nets[p[2]].family = "IPv4"
     /\ ~listing[p[1]].nets[p[2]].internal}

\* The place p comes before the place q, or is q.
Before(p, q) == p[1] < q[1] \/ (p[1] = q[1] /\ p[2] <= q[2])

\* The k-th kept place in enumeration order.
KeptAt(listing, k) ==
  CHOOSE p \in Kept(listing) :
    Cardinality({q \in Kept(listing) : Before(q, p)}) = k

\* 'http://' + host + ':3000'
Url(host) == <<"h", "t", "t", "p", ":", "/", "/">> \o host \o <<":", "3", "0", "0", "0">>

\* C23: for every interface listing, networkInterfaces is exactly the IPv4,
\* non-internal entries in enumeration order, primaryIP is the address of the
\* first of them or 'localhost' when there is none, urls.local is
\* 'http://localhost:<port>' and urls.network is 'http://' + primaryIP + ':'
\* + port in both cases.
C23_ServerInfoFromListing ==
  \A r \in Informed :
    LET listing == reqs[r].listing
        data == reqs[r].res.data
        n == Cardinality(Kept(listing))
    IN /\ Len(data.networkInterfaces) = n
       /\ \A k \in 1..n :
            LET p == KeptAt(listing, k)
            IN /\ data.networkInterfaces[k].interface = listing[p[1]].name
               /\ data.networkInterfaces[k].address = listing[p[1]].nets[p[2]].address
       /\ data.primaryIP =
            IF n = 0 THEN <<"l", "o", "c", "a", "l", "h", "o", "s", "t">>
            ELSE listing[KeptAt(listing, 1)[1]].nets[KeptAt(listing, 1)[2]].address
       /\ data.urlLocal = Url(<<"l", "o", "c", "a", "l", "h", "o", "s", "t">>)
       /\ data.urlNetwork = Url(data.primaryIP)

\* One call saw two addresses to keep, behind a loopback entry and an IPv6
\* entry, and another call saw none.
C23_Witness ==
  \E r \in Informed, q \in Informed :
    /\ reqs[r].listing = <<Lo, Wlan0, Eth0>>
    /\ Len(reqs[r].res.data.networkInterfaces) = 2
    /\ reqs[r].res.data.primaryIP = S_192_168_1_7
    /\ reqs[q].listing = <<Lo>>
    /\ reqs[q].res.data.primaryIP = S_localhost

\* The names and addresses a listing has to show.
KeptEntries(listing) ==
  {<<listing[p[1]].name, listing[p[1]].nets[p[2]].address>> : p \in Kept(listing)}

\* What two calls are compared on: everything but uptime and timestamp.
Shown24(r) ==
  <<reqs[r].res.data.networkInterfaces, reqs[r].res.data.primaryIP,
    reqs[r].res.data.urlLocal, reqs[r].res.data.urlNetwork>>

\* Two answers agree when the host showed the same listing to both calls and
\* differ when it showed different addresses to keep.
LiveStateOnly ==
  \A r \in Informed, q \in Informed :
    /\ reqs[r].listing = reqs[q].listing => Shown24(r) = Shown24(q)
    /\ KeptEntries(reqs[r].listing) # KeptEntries(reqs[q].listing) =>
         reqs[r].res.data.networkInterfaces # reqs[q].res.data.networkInterfaces

\* C24: server-info is a function of the live OS state only: calls that saw
\* the same listing return the same networkInterfaces, primaryIP and urls, a
\* call after the interfaces changed returns the new set and not what an
\* earlier call returned, the listing a call sees is the host's at that
\* moment, and no request of any kind changes the host's listing.
C24_ServerInfoLiveStateOnly ==
  /\ []LiveStateOnly
  /\ [][/\ reqs' # reqs => netifs' = netifs
        /\ \A r \in Slots :
             (reqs[r].pc = "idle" /\ reqs'[r].calls = <<"server-info">>)
               => reqs'[r].listing = netifs]_vars

\* An answer given before the interfaces changed and one given after are both
\* held, and they differ.
C24_Witness ==
  \E r \in Informed, q \in Informed :
    /\ reqs[r].listing = <<Lo, Eth0>>
    /\ reqs[q].listing = <<Eth0, Wlan0>>
    /\ netifs = <<Eth0, Wlan0>>
    /\ reqs[r].res.data.primaryIP = reqs[q].res.data.primaryIP
    /\ Shown24(r) # Shown24(q)

----------------------------------------------------------------------------
(* The raw input, checked under SpecEmail *)

\* The string begins or ends with whitespace.
Padded(s) == s # <<>> /\ (s[1] \in {" ", "\t", "\n"} \/ s[Len(s)] \in {" ", "\t", "\n"})

\* C25: validation and delegation work on the raw input: an address with
\* leading or trailing whitespace is rejected, not trimmed, an address in
\* upper case goes on as it is, and the senderEmail, senderName, recipients,
\* subject and template handed to the transport and echoed in the result are
\* the request's values.
C25_RawInput ==
  \A r \in Admitted :
    LET b == reqs[r].body
    IN /\ (\E x \in Addresses(b) : Padded(x.v)) =>
            /\ reqs[r].res.status = 400
            /\ ~Called(r, "createTransporter")
       /\ (b.recipients.v[1].t = "string" /\ Padded(b.recipients.v[1].v)
            /\ ~Padded(b.senderEmail.v)) =>
            reqs[r].res.tail = b.recipients.v[1].v
       /\ Called(r, "createTransporter") =>
            reqs[r].transporter.user = b.senderEmail
       /\ reqs[r].mail.sent =>
            /\ Addressed(reqs[r].mail) = b.recipients.v
            /\ reqs[r].mail.subject = b.subject
            /\ reqs[r].mail.html = b.template
            /\ reqs[r].mail.from =
                 b.senderName.v \o <<" ", "<">> \o b.senderEmail.v \o <<">">>
       /\ reqs[r].res.status = 200 =>
            /\ reqs[r].res.data.senderEmail = b.senderEmail
            /\ reqs[r].res.data.senderName = b.senderName

\* A sender address in upper case was handed to the transport and echoed in
\* the 200 as it came.
C25_Witness ==
  \E r \in Admitted :
    /\ reqs[r].body.senderEmail = Str(S_upper)
    /\ reqs[r].transporter.user = Str(S_upper)
    /\ reqs[r].mail.from = S_name \o <<" ", "<">> \o S_upper \o <<">">>
    /\ reqs[r].res.status = 200
    /\ reqs[r].res.data.senderEmail = Str(S_upper)


----------------------------------------------------------------------------
(* The app password *)

\* The values a response carries that come from the request or the token.
Echoed(res) ==
  {res.data.senderName, res.data.senderEmail, res.data.sentBy, res.data.username,
   Str(res.tail)}

\* The values the request's log calls were given.
Logged(r) == {reqs[r].logged[i] : i \in 1..Len(reqs[r].logged)}

\* The payload without its app password.
SansPassword(body) == [body EXCEPT !.appPassword = Undefined]

\* Two requests that differ at most in the app password they carry and whose
\* transport calls came back alike.
AlikeButPassword(r, q) ==
  /\ reqs[r].header = reqs[q].header
  /\ reqs[r].at = reqs[q].at
  /\ SansPassword(reqs[r].body) = SansPassword(reqs[q].body)
  /\ reqs[r].settled = reqs[q].settled
  /\ reqs[r].pc = reqs[q].pc

\* C26: the app password of a send-email request goes to createTransporter and
\* nowhere else: it is in no response, in no log call's arguments, and a slot
\* whose request is over holds nothing of it; two requests that differ only
\* in app password and whose transport calls came back alike get the same
\* response, log the same values and hand over the same message.
C26_AppPasswordOnlyToTransporter ==
  /\ \A r \in SendRequests :
       /\ Truthy(reqs[r].body.appPassword) =>
            /\ reqs[r].body.appPassword \notin Echoed(reqs[r].res)
            /\ reqs[r].body.appPassword \notin Logged(r)
       /\ reqs[r].transporter.created =>
            reqs[r].transporter.pass = reqs[r].body.appPassword
  /\ \A r \in Slots : reqs[r].pc = "idle" => reqs[r] = IdleRequest
  /\ \A r, q \in SendRequests :
       AlikeButPassword(r, q) =>
         /\ reqs[r].res = reqs[q].res
         /\ reqs[r].logged = reqs[q].logged
         /\ reqs[r].mail = reqs[q].mail
         /\ reqs[r].calls = reqs[q].calls

\* The logging server has answered two requests that differ only in app
\* password, both after the transport refused the login, and each handed its
\* own password to its transporter.
C26_Witness ==
  /\ build = "logging"
  /\ AlikeButPassword(1, 2)
  /\ reqs[1].body.appPassword # reqs[2].body.appPassword
  /\ reqs[1].pc = "done" /\ reqs[1].res.status = 401
  /\ Called(1, "createTransporter")
  /\ reqs[1].transporter.pass = Str(S_pass)
  /\ reqs[2].transporter.pass = Str(S_pass2)
  /\ Len(reqs[1].logged) > 3


----------------------------------------------------------------------------
(* Where accepted tokens come from, checked under SpecAuth *)

\* The usernames of the credential store.
StoredUsernames == {validCredentials[i].username : i \in 1..Len(validCredentials)}

\* C27: every token the gate accepts was signed by an earlier successful
\* login of this server, so the username the gate attaches, and the sentBy of
\* every 200, is one of the three stored usernames; with the fallback key in
\* use as with a key from the environment.
C27_AcceptedTokensWereIssued ==
  \A r \in SendRequests :
    reqs[r].user # NoUser =>
      /\ reqs[r].header.segs[2].jwt \in issued
      /\ reqs[r].user.username \in StoredUsernames
      /\ reqs[r].res.status = 200 => reqs[r].res.data.sentBy \in StoredUsernames


----------------------------------------------------------------------------
(* One response per request, checked under SpecLive *)

\* The send-email requests that passed the gate.
PastGate == {r \in SendRequests : reqs[r].user # NoUser}

\* The statuses a send-email request that passed the gate may end with.
OutcomeStatuses == {200, 400, 401, 503, 500}

\* No response before the handler is done, one once it is, of a status of
\* the list; a 400 of the validation comes with no transport call made.
OneResponse ==
  \A r \in PastGate :
    /\ reqs[r].responses = (IF reqs[r].pc = "done" THEN 1 ELSE 0)
    /\ reqs[r].pc = "done" => reqs[r].res.status \in OutcomeStatuses
    /\ reqs[r].pc # "done" => reqs[r].res = NoResponse
    /\ reqs[r].res.status = 400 =>
         /\ reqs[r].calls = <<"verifyToken", "validate">>
         /\ ~reqs[r].transporter.created
         /\ ~reqs[r].mail.sent
         /\ reqs[r].settled = <<>>

\* A request waiting for verify() or sendMail().
InFlight(r) == reqs[r].pc \in {"verify", "sendMail"}

\* The request has its one response.
Responded(r) ==
  /\ reqs[r].pc = "done"
  /\ reqs[r].responses = 1
  /\ reqs[r].res.status \in OutcomeStatuses

\* C28: every send-email request that passes the gate gets exactly one
\* response: none while it waits, one of 200, 400, 401, 503, 500 once it is
\* done, nothing written or called after a response (a validation failure
\* included), and, each transport call coming back, every request in flight
\* eventually has its response.
C28_ExactlyOneResponse ==
  /\ []OneResponse
  /\ [][\A r \in Slots :
          reqs[r].pc = "done" => reqs'[r] = reqs[r] \/ reqs'[r] = IdleRequest]_vars
  /\ \A r \in Slots : InFlight(r) ~> Responded(r)

\* One request was answered 400 by the validation while the other, having
\* waited for verify() and for sendMail(), has its 200.
C28_Witness ==
  /\ reqs[1].pc = "done" /\ reqs[1].res.status = 200 /\ reqs[1].responses = 1
  /\ Len(reqs[1].settled) = 2
  /\ 2 \in PastGate /\ reqs[2].res.status = 400 /\ reqs[2].responses = 1


----------------------------------------------------------------------------
(* Expiry while a request is in flight, checked under SpecAuth *)

\* The second segment of the request's Authorization header.
TokenOf(r) == reqs[r].header.segs[2].jwt

\* C29: the token is judged once, when the request enters the gate: a request
\* the gate let through had an unexpired token then, keeps the claims attached
\* then, and ends as its transport calls dictate (200 with sentBy the token's
\* username, or the catch block's response), whatever the clock shows by the
\* time verify() or sendMail() comes back.
C29_TokenJudgedAtEntry ==
  \A r \in SendRequests :
    reqs[r].user # NoUser =>
      /\ Unexpired(TokenOf(r), reqs[r].at)
      /\ reqs[r].user.username = TokenOf(r).username
      /\ reqs[r].user.exp = TokenOf(r).exp
      /\ InFlight(r) => reqs[r].res = NoResponse
      /\ (reqs[r].pc = "done" /\ reqs[r].settled # <<>>) =>
           LET last == reqs[r].settled[Len(reqs[r].settled)]
           IN IF last.ok
                THEN /\ Len(reqs[r].settled) = 2
                     /\ reqs[r].res.status = 200
                     /\ reqs[r].res.data.sentBy = TokenOf(r).username
                     /\ reqs[r].res.data.messageId = last.messageId
                ELSE reqs[r].res = CatchBlock(last)

\* A request entered with an unexpired token, the token expired while its
\* transport calls were pending, and it was answered 200 in the token's name.
C29_Witness ==
  \E r \in SendRequests :
    /\ reqs[r].user # NoUser
    /\ TokenOf(r) \in issued
    /\ Unexpired(TokenOf(r), reqs[r].at)
    /\ ~Unexpired(TokenOf(r), now)
    /\ Len(reqs[r].settled) = 2
    /\ reqs[r].res.status = 200
    /\ reqs[r].res.data.sentBy = TokenOf(r).username


----------------------------------------------------------------------------
(* What reaches the transport, checked under SpecValidate *)

\* C30: every payload that reaches the transport has a string as senderEmail
\* and a string as each recipient: a request whose senderEmail or some
\* recipient is no string (an array holding an address, say) is answered 400
\* and neither createTransporter nor sendMail is called for it.
C30_OnlyStringsReachTransport ==
  \A r \in SendRequests :
    LET b == reqs[r].body
    IN /\ \A step \in {"createTransporter", "sendMail"} :
            Called(r, step) =>
              /\ b.senderEmail.t = "string"
              /\ \A i \in 1..Len(b.recipients.v) : b.recipients.v[i].t = "string"
       /\ reqs[r].transporter.created => reqs[r].transporter.user.t = "string"

====
